---- MODULE Spec2Model ----
(***************************************************************************)
(* A model of the SageAlpha chat backend (src/app.py): the topic tracker   *)
(* extract_topic, the session memory builder                               *)
(* build_session_memory_sections, the multi-conversation store SESSIONS    *)
(* with the /chat_session handler run by concurrent request threads, and   *)
(* the single ongoing conversation kept in the Flask session (/chat).      *)
(*                                                                         *)
(* Python strings are sequences of one-character strings, so that          *)
(* lower(), strip(), re.findall, the "in" substring test, f-string         *)
(* rendering and slicing are computed and not assumed.                     *)
(***************************************************************************)
EXTENDS Integers, Sequences, FiniteSets, Bags, TLC

VARIABLES
    \* one call of extract_topic: its arguments and its result
    t_pc, t_user_msg, t_last_topic, t_result,
    \* one call of build_session_memory_sections: its arguments, the list it
    \* renders (the local "filtered") and the string it returns
    m_pc, m_sections, m_topic, m_limit, m_max_chars, m_kept, m_text,
    \* one pass from the retrieval call to the generation call's arguments:
    \* the user message, the session memory text, whether the search client
    \* is configured, what the search provider does, the list search_azure
    \* returns and the messages handed to the generation call
    p_pc, p_user_msg, p_memory, p_client, p_provider, p_retrieved, p_messages,
    \* the process: the conversation store, the clock read by utcnow(), the
    \* Flask session of the single ongoing conversation, the /chat_session
    \* handlers under way (a bag of their local variables) and the exchanges
    \* completed (a bag of request payloads with their responses)
    SESSIONS, clock, session, inflight, served,
    \* one call of upload_large_pdf (download_pdfs.py): where it stands, the
    \* data, the loop's index, the local list of block ids, the blocks the
    \* blob service holds staged and the block list committed
    u_pc, u_data, u_index, u_blocks, u_staged, u_committed

topic_vars == <<t_pc, t_user_msg, t_last_topic, t_result>>

memory_vars ==
    <<m_pc, m_sections, m_topic, m_limit, m_max_chars, m_kept, m_text>>

prompt_vars ==
    <<p_pc, p_user_msg, p_memory, p_client, p_provider, p_retrieved, p_messages>>

app_vars == <<SESSIONS, clock, session, inflight, served>>

upload_vars == <<u_pc, u_data, u_index, u_blocks, u_staged, u_committed>>

vars == <<topic_vars, memory_vars, prompt_vars, app_vars, upload_vars>>

-----------------------------------------------------------------------------
(* Python values                                                           *)

\* Python's None: a value no string of characters equals.
None == <<"<None>">>

\* The truth value Python gives a str-or-None ("if not x", "x or y").
Truthy(x) == x # None /\ x # <<>>

\* x or "" (src/app.py:255, 396, 640).
OrEmpty(x) == IF Truthy(x) THEN x ELSE <<>>

UpperLetters ==
    <<"A","B","C","D","E","F","G","H","I","J","K","L","M",
      "N","O","P","Q","R","S","T","U","V","W","X","Y","Z">>

LowerLetters ==
    <<"a","b","c","d","e","f","g","h","i","j","k","l","m",
      "n","o","p","q","r","s","t","u","v","w","x","y","z">>

Digits == <<"0","1","2","3","4","5","6","7","8","9">>

Range(s) == {s[i] : i \in DOMAIN s}

\* The lowercase letter of each uppercase letter.
LowerOf ==
    [c \in Range(UpperLetters) |->
        LowerLetters[CHOOSE i \in DOMAIN UpperLetters : UpperLetters[i] = c]]

UpperChars == Range(UpperLetters)

\* str.lower() on one character.
LowerChar(c) == IF c \in UpperChars THEN LowerOf[c] ELSE c

\* str.lower()
Lower(s) == [i \in DOMAIN s |-> LowerChar(s[i])]

\* The characters str.strip() removes.
Whitespace == {" ", "\t", "\n"}

RECURSIVE LStrip(_)
LStrip(s) ==
    IF s # <<>> /\ Head(s) \in Whitespace THEN LStrip(Tail(s)) ELSE s

RECURSIVE RStrip(_)
RStrip(s) ==
    IF s # <<>> /\ s[Len(s)] \in Whitespace
    THEN RStrip(SubSeq(s, 1, Len(s) - 1))
    ELSE s

\* str.strip()
Strip(s) == RStrip(LStrip(s))

\* The character class [a-z0-9] of the tokenizer's pattern.
TokenChars == Range(LowerLetters) \cup Range(Digits)

IsTokenChar(c) == c \in TokenChars

\* re.findall(r"[a-z0-9]+", text): the maximal runs of token characters,
\* left to right.
RECURSIVE FindAllFrom(_, _, _, _)
FindAllFrom(text, i, cur, acc) ==
    IF i > Len(text)
    THEN IF cur = <<>> THEN acc ELSE Append(acc, cur)
    ELSE IF IsTokenChar(text[i])
         THEN FindAllFrom(text, i + 1, Append(cur, text[i]), acc)
         ELSE FindAllFrom(text, i + 1, <<>>,
                          IF cur = <<>> THEN acc ELSE Append(acc, cur))

FindAll(text) == FindAllFrom(text, 1, <<>>, <<>>)

\* needle in hay (Python's substring test on str).
Contains(hay, needle) ==
    \E i \in 0..(Len(hay) - Len(needle)) :
        \A j \in 1..Len(needle) : hay[i + j] = needle[j]

\* "sep".join(parts)
RECURSIVE Join(_, _)
Join(sep, parts) ==
    IF parts = <<>> THEN <<>>
    ELSE IF Len(parts) = 1 THEN parts[1]
    ELSE parts[1] \o sep \o Join(sep, Tail(parts))

Min(a, b) == IF a <= b THEN a ELSE b

Max(a, b) == IF a >= b THEN a ELSE b

\* The position a slice bound denotes in a sequence of length n: a negative
\* bound counts from the end, and every bound is clamped to 0..n.
SliceIndex(n, k) == IF k < 0 THEN Max(n + k, 0) ELSE Min(k, n)

\* s[start:]
SliceFrom(s, start) == SubSeq(s, SliceIndex(Len(s), start) + 1, Len(s))

\* s[:stop]
SliceTo(s, stop) == SubSeq(s, 1, SliceIndex(Len(s), stop))

\* str(n) for n >= 0.
RECURSIVE Decimal(_)
Decimal(n) ==
    IF n < 10 THEN <<Digits[n + 1]>>
    ELSE Decimal(n \div 10) \o <<Digits[(n % 10) + 1]>>

\* datetime.isoformat() of the clock reading n: a text of fixed width, so
\* that the texts order as the readings do (for readings under 100).
IsoFormat(n) == <<"T">> \o (IF n < 10 THEN <<"0">> ELSE <<>>) \o Decimal(n)

\* The characters in the order of their code points.
CodePointOrder == Digits \o UpperLetters \o LowerLetters

Ord(c) == CHOOSE i \in DOMAIN CodePointOrder : CodePointOrder[i] = c

\* a < b on str
RECURSIVE StrLess(_, _)
StrLess(a, b) ==
    IF b = <<>> THEN FALSE
    ELSE IF a = <<>> THEN TRUE
    ELSE IF Head(a) = Head(b) THEN StrLess(Tail(a), Tail(b))
    ELSE Ord(Head(a)) < Ord(Head(b))

-----------------------------------------------------------------------------
(* Topic tracker: extract_topic                                            *)

question_starts ==
    { <<"w","h","o">>,
      <<"w","h","a","t">>,
      <<"w","h","i","c","h">>,
      <<"w","h","e","n">>,
      <<"w","h","e","r","e">>,
      <<"w","h","y">>,
      <<"h","o","w">>,
      <<"g","i","v","e">>,
      <<"t","e","l","l">>,
      <<"s","h","o","w">>,
      <<"e","x","p","l","a","i","n">>,
      <<"o","w","n","e","r">>,
      <<"c","e","o">>,
      <<"c","h","a","i","r","m","a","n">>,
      <<"m","d">>,
      <<"d","i","r","e","c","t","o","r">> }

\* The longest phrase, in tokens, taken as a new topic.
MaxTopicTokens == 4

\* extract_topic with the short-phrase rule tried before the question rule.
extract_topic_short_first(user_msg, last_topic) ==
    IF ~Truthy(user_msg) THEN last_topic
    ELSE LET text == Lower(Strip(user_msg))
             tokens == FindAll(text)
         IN  IF tokens = <<>> THEN last_topic
             ELSE IF Len(tokens) <= MaxTopicTokens THEN text
             ELSE last_topic

\* extract_topic with "<" for "<=" in the short-phrase rule.
extract_topic_lt(user_msg, last_topic) ==
    IF ~Truthy(user_msg) THEN last_topic
    ELSE LET text == Lower(Strip(user_msg))
             tokens == FindAll(text)
         IN  IF tokens = <<>> THEN last_topic
             ELSE IF tokens[1] \in question_starts THEN last_topic
             ELSE IF Len(tokens) < MaxTopicTokens THEN text
             ELSE last_topic

\* extract_topic without the length test: any non-question message is a topic.
extract_topic_keep_long(user_msg, last_topic) ==
    IF ~Truthy(user_msg) THEN last_topic
    ELSE LET text == Lower(Strip(user_msg))
             tokens == FindAll(text)
         IN  IF tokens = <<>> THEN last_topic
             ELSE IF tokens[1] \in question_starts THEN last_topic
             ELSE text

extract_topic(user_msg, last_topic) ==
    IF ~Truthy(user_msg) THEN last_topic
    ELSE LET text == Lower(Strip(user_msg))
             tokens == FindAll(text)
         IN  IF tokens = <<>> THEN last_topic
             ELSE IF tokens[1] \in question_starts THEN last_topic
             ELSE IF Len(tokens) <= MaxTopicTokens THEN text
             ELSE last_topic

-----------------------------------------------------------------------------
(* Inputs of the topic tracker                                             *)

W_cupid     == <<"c","u","p","i","d">>
W_Cupid     == <<"C","u","p","i","d">>
W_Limited   == <<"L","i","m","i","t","e","d">>
W_limited   == <<"l","i","m","i","t","e","d">>
W_tata      == <<"t","a","t","a">>
W_motors    == <<"m","o","t","o","r","s">>
W_Who       == <<"W","h","o">>
W_GIVE      == <<"G","I","V","E">>
W_whoever   == <<"w","h","o","e","v","e","r">>
W_ceos      == <<"c","e","o","s">>
W_3m        == <<"3","m">>
W_is        == <<"i","s">>
W_the       == <<"t","h","e">>
W_name      == <<"n","a","m","e">>
W_who       == <<"w","h","o">>
W_what      == <<"w","h","a","t">>
W_which     == <<"w","h","i","c","h">>
W_when      == <<"w","h","e","n">>
W_where     == <<"w","h","e","r","e">>
W_why       == <<"w","h","y">>
W_how       == <<"h","o","w">>
W_give      == <<"g","i","v","e">>
W_tell      == <<"t","e","l","l">>
W_show      == <<"s","h","o","w">>
W_explain   == <<"e","x","p","l","a","i","n">>
W_owner     == <<"o","w","n","e","r">>
W_ceo       == <<"c","e","o">>
W_chairman  == <<"c","h","a","i","r","m","a","n">>
W_md        == <<"m","d">>
W_director  == <<"d","i","r","e","c","t","o","r">>
Space       == <<" ">>

\* The sixteen question/reference words, as the specification lists them.
QuestionWords ==
    { W_who, W_what, W_which, W_when, W_where, W_why, W_how, W_give, W_tell,
      W_show, W_explain, W_owner, W_ceo, W_chairman, W_md, W_director }

\* The messages of the spec's examples.
Msg_CupidLimited   == W_Cupid \o Space \o W_Limited
Msg_WhoIsTheOwner  == W_who \o Space \o W_is \o Space \o W_the \o Space \o W_owner
Msg_GiveTheCeoName == W_give \o Space \o W_the \o Space \o W_ceo \o Space \o W_name
Topic_cupid_limited == W_cupid \o Space \o W_limited
Topic_tata_motors   == W_tata \o Space \o W_motors

\* The most words that follow a message's first word.
MaxRestWords == 4

FirstWords ==
    QuestionWords \cup
    {W_Who, W_GIVE, W_whoever, W_ceos, W_Cupid, W_tata, W_3m}

RestWords == {W_Limited, W_the}

Separators == {<<" ">>, <<"'">>}

\* What surrounds a message: nothing, blanks, a tab and a newline.
Pads == {<<<<>>, <<>>>>, <<<<" ">>, <<" ", " ">>>>, <<<<"\t">>, <<"\n">>>>}

RestSeqs == UNION {[1..n -> RestWords] : n \in 0..MaxRestWords}

\* Messages without any token.
BlankMessages == {<<>>, <<" ", " ">>, <<"?", "!">>, <<"\n">>}

TopicMessages ==
    BlankMessages \cup
    { p[1] \o Join(sep, <<w>> \o rest) \o p[2] :
        p \in Pads, sep \in Separators, w \in FirstWords, rest \in RestSeqs }
    \cup {Msg_CupidLimited, Msg_WhoIsTheOwner, Msg_GiveTheCeoName}

PreviousTopics == {None, <<>>, Topic_cupid_limited, Topic_tata_motors}

-----------------------------------------------------------------------------
(* The topic tracker applied to one input                                  *)

\* No call of extract_topic under way.
TopicOff ==
    /\ t_pc = "off"
    /\ t_user_msg = <<>>
    /\ t_last_topic = None
    /\ t_result = None

\* No call of build_session_memory_sections under way.
MemoryOff ==
    /\ m_pc = "off"
    /\ m_sections = <<>>
    /\ m_topic = None
    /\ m_limit = 0
    /\ m_max_chars = 0
    /\ m_kept = <<>>
    /\ m_text = <<>>

\* No pass from retrieval to generation under way.
PromptOff ==
    /\ p_pc = "off"
    /\ p_user_msg = <<>>
    /\ p_memory = <<>>
    /\ p_client = FALSE
    /\ p_provider = <<>>
    /\ p_retrieved = <<>>
    /\ p_messages = <<>>

\* The process as it starts: no conversation, no request, an empty session.
AppOff ==
    /\ SESSIONS = <<>>
    /\ clock = 0
    /\ session = <<>>
    /\ inflight = EmptyBag
    /\ served = EmptyBag

UploadOff ==
    /\ u_pc = "off"
    /\ u_data = [from |-> 0, to |-> 0]
    /\ u_index = 0
    /\ u_blocks = <<>>
    /\ u_staged = <<>>
    /\ u_committed = <<>>

TopicInit ==
    /\ t_pc = "input"
    /\ t_user_msg \in TopicMessages
    /\ t_last_topic \in PreviousTopics
    /\ t_result = None
    /\ MemoryOff
    /\ PromptOff
    /\ AppOff
    /\ UploadOff

UpdateTopic ==
    /\ t_pc = "input"
    /\ t_result' = extract_topic(t_user_msg, t_last_topic)
    /\ t_pc' = "output"
    /\ UNCHANGED <<t_user_msg, t_last_topic, memory_vars, prompt_vars, app_vars,
                   upload_vars>>

TopicNext == UpdateTopic

SpecTopic == TopicInit /\ [][TopicNext]_vars

-----------------------------------------------------------------------------
(* Session memory builder: build_session_memory_sections                   *)

DefaultLimit == 5

DefaultMaxChars == 1500

\* A Section: {"timestamp", "query", "answer"}.
Section(ts, q, a) == [timestamp |-> ts, query |-> q, answer |-> a]

\* (current_topic or "").lower().strip()
NormalizedTopic(current_topic) == Strip(Lower(OrEmpty(current_topic)))

\* The topic test looking at the query alone.
SectionMatches_query_only(s, normalized_topic) ==
    Contains(Lower(OrEmpty(s.query)), normalized_topic)

\* normalized_topic in q or normalized_topic in a
SectionMatches(s, normalized_topic) ==
    \/ Contains(Lower(OrEmpty(s.query)), normalized_topic)
    \/ Contains(Lower(OrEmpty(s.answer)), normalized_topic)

\* The sections rendered by a builder without the topic filter.
RenderedSections_unfiltered(sections, current_topic, limit) ==
    SliceFrom(sections, 0 - limit)

\* The sections the builder renders: "filtered" after its slice.
RenderedSections(sections, current_topic, limit) ==
    LET normalized_topic == NormalizedTopic(current_topic)
        Keep(s) == SectionMatches(s, normalized_topic)
        filtered == IF Truthy(normalized_topic)
                    THEN SelectSeq(sections, Keep)
                    ELSE <<>>
    IN  IF filtered = <<>>
        THEN SliceFrom(sections, 0 - limit)
        ELSE SliceFrom(filtered, 0 - limit)

\* f"[{timestamp}] Q: {query}\nA: {answer}"
RenderSection(s) ==
    <<"[">> \o s.timestamp \o <<"]", " ", "Q", ":", " ">> \o s.query
        \o <<"\n", "A", ":", " ">> \o s.answer

\* "\n\n".join(parts)
RenderSections(kept) ==
    Join(<<"\n", "\n">>, [i \in DOMAIN kept |-> RenderSection(kept[i])])

\* The builder returning memory_text uncut.
build_session_memory_sections_uncut(sections, current_topic, limit, max_chars) ==
    IF sections = <<>> THEN <<>>
    ELSE RenderSections(RenderedSections(sections, current_topic, limit))

build_session_memory_sections(sections, current_topic, limit, max_chars) ==
    IF sections = <<>> THEN <<>>
    ELSE SliceTo(RenderSections(RenderedSections(sections, current_topic, limit)),
                 max_chars)

-----------------------------------------------------------------------------
(* Inputs of the session memory builder                                    *)

\* The most sections of a conversation given to the builder.
MaxSections == 3

\* The largest limit tried, besides the default.
MaxLimit == 3

\* max_chars is tried from 0 to SmallCut, at MidCut and at the default.
SmallCut == 2

MidCut == 40

W_CUPID == <<"C","U","P","I","D">>
W_ok    == <<"o","k">>
W_zzz   == <<"z","z","z">>

\* Query and answer of the sections tried: the topic "cupid" in the query
\* (capitalised), in the answer alone (upper case), and in neither.
SectionTexts ==
    { <<W_Cupid, W_ok>>, <<W_owner, W_CUPID \o Space \o W_ok>>, <<W_tata, W_motors>> }

\* Sections in chronological order: the i-th carries the i-th clock reading.
SectionSeqs ==
    UNION { { [i \in 1..n |-> Section(IsoFormat(i), f[i][1], f[i][2])] :
                f \in [1..n -> SectionTexts] } : n \in 0..MaxSections }

MemoryTopics ==
    {None, <<>>, W_cupid, Space \o W_Cupid \o Space, W_tata, W_zzz}

LimitValues == ((0 - 1)..MaxLimit) \cup {DefaultLimit}

MaxCharsValues == (0..SmallCut) \cup {MidCut, DefaultMaxChars}

MemoryInit ==
    /\ m_pc = "input"
    /\ m_sections \in SectionSeqs
    /\ m_topic \in MemoryTopics
    /\ m_limit \in LimitValues
    /\ m_max_chars \in MaxCharsValues
    /\ m_kept = <<>>
    /\ m_text = <<>>
    /\ TopicOff
    /\ PromptOff
    /\ AppOff
    /\ UploadOff

\* One call: the argument list is read and never assigned.
BuildMemory ==
    /\ m_pc = "input"
    /\ m_kept' = IF m_sections = <<>> THEN <<>>
                 ELSE RenderedSections(m_sections, m_topic, m_limit)
    /\ m_text' = build_session_memory_sections(m_sections, m_topic, m_limit,
                                               m_max_chars)
    /\ m_pc' = "output"
    /\ UNCHANGED <<m_sections, m_topic, m_limit, m_max_chars, topic_vars,
                   prompt_vars, app_vars, upload_vars>>

MemoryNext == BuildMemory

SpecMemory == MemoryInit /\ [][MemoryNext]_vars

-----------------------------------------------------------------------------
(* Retrieval wrapper search_azure, retrieval gate and prompt assembler     *)
(* build_hybrid_messages                                                   *)

\* relevance_threshold = 0.35; scores are counted in hundredths.
RelevanceThreshold == 35

\* The cut of the context text, [:6000].
MaxContextChars == 6000

\* The score of a provider record that has no "@search.score".
NoScore == -1

\* What an f-string renders of a str-or-None.
Format(x) == IF x = None THEN <<"N","o","n","e">> ELSE x

\* x or y
Or(x, y) == IF Truthy(x) THEN x ELSE y

\* d.get(k, default) on a dict
DictGet(d, k, default) == IF k \in DOMAIN d THEN d[k] ELSE default

\* A record of the search provider's result set. r.get(field) of a field the
\* record lacks is None; the fields tried hold strings, never lists.
RawResult(id, path, source, merged_content, content, imageCaption, score) ==
    [ id                    |-> id,
      metadata_storage_path |-> path,
      source                |-> source,
      merged_content        |-> merged_content,
      content               |-> content,
      imageCaption          |-> imageCaption,
      score                 |-> score ]

\* The text fields of a provider record, in the order search_azure reads them.
ContentFields == <<"merged_content", "content", "imageCaption">>

\* content_parts: the text fields that hold something.
ContentParts(r) ==
    SelectSeq([i \in DOMAIN ContentFields |-> r[ContentFields[i]]], Truthy)

\* The document search_azure makes of a provider record (of meta, the
\* source alone is read afterwards).
WrapResult(r) ==
    [ doc_id |-> Or(Or(r.id, r.metadata_storage_path), <<>>),
      text   |-> Or(Join(<<"\n">>, ContentParts(r)), <<>>),
      meta   |-> [source |-> Or(r.metadata_storage_path, r.source)],
      score  |-> IF r.score = NoScore THEN 0 ELSE r.score ]

\* What the search provider does with a query: search() raises, or it
\* returns an iterable of records, which yields them all or raises after
\* those of "results" while the loop of line 200 reads it.
ProviderRaises == [raises |-> TRUE, read_raises |-> FALSE, results |-> <<>>]

ProviderReturns(results) == [raises |-> FALSE, read_raises |-> FALSE, results |-> results]

ProviderReadRaises(results) == [raises |-> FALSE, read_raises |-> TRUE, results |-> results]

\* search_azure(query_text, top_k) raises: the loop over the results is
\* outside the try block of lines 193-197.
search_azure_raises(search_client, query_text, provider) ==
    /\ search_client
    /\ Truthy(query_text)
    /\ ~provider.raises
    /\ provider.read_raises

\* What search_azure(query_text, top_k) returns when it does not raise, with
\* the search client configured or not.
search_azure(search_client, query_text, provider) ==
    IF ~search_client THEN <<>>
    ELSE IF ~Truthy(query_text) THEN <<>>
    ELSE IF provider.raises THEN <<>>
    ELSE [i \in DOMAIN provider.results |-> WrapResult(provider.results[i])]

\* The gate's test with a strict comparison.
IsRelevant_strict(r) == r.score > RelevanceThreshold

\* r.get("score", 0.0) >= relevance_threshold
IsRelevant(r) == r.score >= RelevanceThreshold

\* relevant_docs
RelevantDocs(retrieved_docs) == SelectSeq(retrieved_docs, IsRelevant)

\* r['meta'].get('source', r['doc_id'])
SourceLabel(r) == DictGet(r.meta, "source", r.doc_id)

\* f"Source: {r['meta'].get('source', r['doc_id'])}\n{r['text']}"
ContextChunk(r) ==
    <<"S","o","u","r","c","e",":"," ">> \o Format(SourceLabel(r)) \o <<"\n">> \o r.text

HasText(r) == Truthy(r.text)

\* context_chunks
ContextChunks(relevant_docs) ==
    LET with_text == SelectSeq(relevant_docs, HasText)
    IN  [i \in DOMAIN with_text |-> ContextChunk(with_text[i])]

\* The context text joined and left uncut.
ContextText_uncut(retrieved_docs) ==
    LET relevant_docs == RelevantDocs(retrieved_docs)
    IN  IF relevant_docs # <<>>
        THEN Join(<<"\n", "\n">>, ContextChunks(relevant_docs))
        ELSE <<>>

\* The context text made of every document when none is relevant.
ContextText_ungated(retrieved_docs) ==
    LET relevant_docs == RelevantDocs(retrieved_docs)
    IN  SliceTo(Join(<<"\n", "\n">>,
                     ContextChunks(IF relevant_docs # <<>> THEN relevant_docs
                                   ELSE retrieved_docs)),
                MaxContextChars)

\* context_text
ContextText(retrieved_docs) ==
    LET relevant_docs == RelevantDocs(retrieved_docs)
    IN  IF relevant_docs # <<>>
        THEN SliceTo(Join(<<"\n", "\n">>, ContextChunks(relevant_docs)),
                     MaxContextChars)
        ELSE <<>>

\* The opening words of system_prompt, standing for the whole of it.
SystemPrompt == <<"Y","o","u"," ","a","r","e"," ","S","a","g","e","A","l","p","h","a">>

\* "Session memory (previous Q&A sections):\n"
MemoryLabel == 
    <<"S","e","s","s","i","o","n"," ","m","e","m","o","r","y"," ","(","p","r","e","v","i","o","u","s"," ","Q","&","A"," ">>
        \o <<"s","e","c","t","i","o","n","s",")",":","\n">>

\* "Context:\n"
ContextLabel == <<"C","o","n","t","e","x","t",":","\n">>

\* {"role": ..., "content": ...} of the generation call's messages.
PromptMessage(role, content) == [role |-> role, content |-> content]

\* extra_system_msgs left empty whatever the memory.
ExtraSystemMsgs_dropped(session_memory_text) == <<>>

\* extra_system_msgs as the handlers build it from session_memory_text.
ExtraSystemMsgs(session_memory_text) ==
    IF Truthy(session_memory_text)
    THEN <<PromptMessage("system", MemoryLabel \o session_memory_text)>>
    ELSE <<>>

\* The assembler with the context message left out when the context is
\* empty.
build_hybrid_messages_no_empty_context(user_msg, retrieved_docs, extra_system_msgs) ==
    <<PromptMessage("system", SystemPrompt)>>
        \o extra_system_msgs
        \o (IF ContextText(retrieved_docs) = <<>> THEN <<>>
            ELSE <<PromptMessage("system",
                                 ContextLabel \o ContextText(retrieved_docs))>>)
        \o <<PromptMessage("user", user_msg)>>

build_hybrid_messages(user_msg, retrieved_docs, extra_system_msgs) ==
    <<PromptMessage("system", SystemPrompt)>>
        \o (IF extra_system_msgs # <<>> THEN extra_system_msgs ELSE <<>>)
        \o <<PromptMessage("system", ContextLabel \o ContextText(retrieved_docs))>>
        \o <<PromptMessage("user", user_msg)>>

-----------------------------------------------------------------------------
(* Inputs of the retrieval wrapper, the gate and the assembler             *)

\* The most records the search provider returns.
MaxDocs == 2

\* A text that alone fills the context past its cut.
LongText == [i \in 1..(MaxContextChars - 5) |-> "x"]

\* Provider records: a score on the threshold with neither storage path nor
\* source; a score just under it; a long text with a source; no text at
\* all; no id and no score, two text fields; both a storage path and a
\* source.
Raw_boundary == RawResult(<<"d","1">>, None, None, None, W_Cupid, None, 35)

Raw_below == RawResult(<<"d","2">>, None, None, None, W_tata, None, 34)

Raw_long == RawResult(<<"d","3">>, None, <<"s","3">>, LongText, None, None, 90)

Raw_no_text == RawResult(<<"d","4">>, None, None, None, None, None, 90)

Raw_no_score == RawResult(None, <<"p","5">>, None, W_ok, W_motors, None, NoScore)

Raw_path == RawResult(<<"d","6">>, <<"p","6">>, <<"s","6">>, None, W_owner, None, 90)

RawResults ==
    {Raw_boundary, Raw_below, Raw_long, Raw_no_text, Raw_no_score, Raw_path}

\* What the provider may do with one query.
ProviderOutcomes ==
    {ProviderRaises}
        \cup { ProviderReturns(results) :
                 results \in UNION {[1..n -> RawResults] : n \in 0..MaxDocs} }
        \cup { ProviderReadRaises(results) :
                 results \in {<<>>, <<Raw_path>>} }

\* The session memory texts a handler may have built.
MemoryTexts ==
    { <<>>, RenderSections(<<Section(IsoFormat(1), Msg_CupidLimited, W_ok)>>) }

\* The message texts a handler lets through.
PromptUserMessages == {Msg_CupidLimited, Msg_WhoIsTheOwner}

PromptInit ==
    /\ p_pc = "search"
    /\ p_user_msg \in PromptUserMessages
    /\ p_memory \in MemoryTexts
    /\ p_client \in BOOLEAN
    /\ p_provider \in ProviderOutcomes
    /\ p_retrieved = <<>>
    /\ p_messages = <<>>
    /\ TopicOff
    /\ MemoryOff
    /\ AppOff
    /\ UploadOff

\* retrieved = search_azure(user_msg, top_k)
Retrieve ==
    /\ p_pc = "search"
    /\ ~search_azure_raises(p_client, p_user_msg, p_provider)
    /\ p_retrieved' = search_azure(p_client, p_user_msg, p_provider)
    /\ p_pc' = "assemble"
    /\ UNCHANGED <<p_user_msg, p_memory, p_client, p_provider, p_messages,
                   topic_vars, memory_vars, app_vars, upload_vars>>

\* extra_system_msgs and messages = build_hybrid_messages(...); the
\* generation call is made with them next.
Assemble ==
    /\ p_pc = "assemble"
    /\ p_messages' = build_hybrid_messages(p_user_msg, p_retrieved,
                                           ExtraSystemMsgs(p_memory))
    /\ p_pc' = "generate"
    /\ UNCHANGED <<p_user_msg, p_memory, p_client, p_provider, p_retrieved,
                   topic_vars, memory_vars, app_vars, upload_vars>>

\* search_azure raises at line 413 or 654, outside the handler's try block:
\* the request ends with the error handler's 500 and no generation call.
RetrieveRaises ==
    /\ p_pc = "search"
    /\ search_azure_raises(p_client, p_user_msg, p_provider)
    /\ p_pc' = "error"
    /\ UNCHANGED <<p_user_msg, p_memory, p_client, p_provider, p_retrieved,
                   p_messages, topic_vars, memory_vars, app_vars, upload_vars>>

PromptNext == Retrieve \/ RetrieveRaises \/ Assemble

SpecPrompt == PromptInit /\ [][PromptNext]_vars

-----------------------------------------------------------------------------
(* The web backend: conversation store, /chat_session, /chat               *)

\* The most requests started (over POST /sessions, /chat_session and /chat
\* together).
MaxRequests == 2

\* payload.get("session_id") of a request that names no conversation.
NoSessionId == 0

\* An id a client sends that the store never issued.
UnknownId == -1

\* d[k] = v on a dict
SetKey(d, k, v) == [x \in DOMAIN d \cup {k} |-> IF x = k THEN v ELSE d[x]]

\* d.pop(k, None) on a dict
PopKey(d, k) == [x \in DOMAIN d \ {k} |-> d[x]]

W_New  == <<"N","e","w">>
W_chat == <<"c","h","a","t">>
W_Sage == <<"S","a","g","e">>
W_Om   == <<"O","m">>

\* "New chat"
DefaultTitle == W_New \o Space \o W_chat

\* The content of the seed system message of the single conversation.
SeedContent == W_Sage

\* {"role": ..., "content": ..., "meta": {}} of the multi-conversation store.
StoreMessage(role, content) == [role |-> role, content |-> content, meta |-> <<>>]

\* {"role": ..., "content": ...} of the single conversation's history.
HistoryMessage(role, content) == [role |-> role, content |-> content]

\* str(uuid4()): an id no conversation of the store has.
FreshId(store) == Cardinality(DOMAIN store) + 1

\* create_session(title) at clock reading `now`: the store with the new
\* conversation under the id `sid`.
create_session(store, sid, now, title) ==
    SetKey(store, sid,
           [ id            |-> sid,
             title         |-> IF Truthy(title) THEN title ELSE DefaultTitle,
             created       |-> IsoFormat(now),
             messages      |-> <<>>,
             sections      |-> <<>>,
             current_topic |-> <<>> ])

\* (payload.get("message") or "") without the strip().
MessageOf_unstripped(raw) == OrEmpty(raw)

\* (payload.get("message") or "").strip()
MessageOf(raw) == Strip(OrEmpty(raw))

\* The lookup of line 629 finding no conversation, whatever the id.
KnownSession_never(store, session_id) == FALSE

\* session_id and session_id in SESSIONS
KnownSession(store, session_id) ==
    session_id # NoSessionId /\ session_id \in DOMAIN store

\* The conversation the handler's local `s` refers to, looked up again as
\* the newest conversation of the store.
ConversationOf_newest(f) == Cardinality(DOMAIN SESSIONS)

\* The conversation the handler's local `s` refers to.
ConversationOf(f) == f.s

\* The local variables of a /chat_session handler past line 635.
Frame(payload_session_id, user_msg, sid) ==
    [ pc                  |-> "prepare",
      payload_session_id  |-> payload_session_id,
      session_id          |-> sid,
      user_msg            |-> user_msg,
      s                   |-> sid,
      current_topic       |-> None,
      session_memory_text |-> <<>>,
      retrieved           |-> <<>>,
      messages            |-> <<>>,
      ai_msg              |-> None ]

\* A completed exchange: what the client sent, the conversation of the store
\* the handler worked on (NoSessionId for none), what the client got back
\* and the messages the handler gave the generation call (none when it made
\* no call). "sessions" is for the conversations a response carries.
Exchange(endpoint, payload_sid, message, s, status, sid, response, sources, error, messages) ==
    [ endpoint           |-> endpoint,
      payload_session_id |-> payload_sid,
      message            |-> message,
      s                  |-> s,
      status             |-> status,
      session_id         |-> sid,
      response           |-> response,
      sources            |-> sources,
      error              |-> error,
      messages           |-> messages,
      sessions           |-> <<>> ]

\* The citation list made of the documents that passed the gate.
Sources_gated(retrieved) ==
    LET docs == RelevantDocs(retrieved)
    IN  [i \in DOMAIN docs |->
            [ doc_id |-> docs[i].doc_id,
              source |-> docs[i].meta.source,
              score  |-> docs[i].score ]]

\* The citation list of a response.
Sources(retrieved) ==
    [i \in DOMAIN retrieved |->
        [ doc_id |-> retrieved[i].doc_id,
          source |-> retrieved[i].meta.source,
          score  |-> retrieved[i].score ]]

BagAdd(bag, e) == bag (+) SetToBag({e})

BagRemove(bag, e) == bag (-) SetToBag({e})

\* The requests started so far.
Started == BagCardinality(inflight) + BagCardinality(served)

\* "Empty message"
EmptyMessage == <<"E","m","p","t","y">>

\* str(e) of the exception the generation call raises.
ErrorText == <<"e","r","r">>

\* "Backend error: "
BackendError == <<"B","a","c","k","e","n","d",":"," ">>

\* What a client sends as "message".
RawMessages ==
    { None, <<" ", " ">>, Space \o Msg_CupidLimited \o Space, Msg_WhoIsTheOwner }

\* What a client sends as "title".
RawTitles == {None, W_tata}

\* What the generation provider answers.
Answers == {W_Om}

\* A retrieved document.
Doc(id, text, score_hundredths) ==
    [ doc_id |-> id, text |-> text, meta |-> [source |-> None],
      score |-> score_hundredths ]

\* What search_azure returns: nothing (no client, an empty query, a failed
\* search, no hit) or documents, one above and one below the relevance
\* threshold.
SearchResults ==
    { <<>>, <<Doc(<<"d", "1">>, W_Cupid, 90), Doc(<<"d", "2">>, W_tata, RelevanceThreshold - 1)>> }

\* POST /sessions
create_session_route ==
    \E title \in RawTitles :
        LET id == FreshId(SESSIONS)
        IN  /\ Started < MaxRequests
            /\ SESSIONS' = create_session(SESSIONS, id, clock + 1,
                                          IF Truthy(title) THEN title
                                          ELSE DefaultTitle)
            /\ clock' = clock + 1
            /\ served' =
                 BagAdd(served,
                        [Exchange("sessions", NoSessionId, title, id, 201,
                                  id, None, <<>>, None, <<>>)
                           EXCEPT !.sessions = <<SESSIONS'[id]>>])
            /\ UNCHANGED <<session, inflight, topic_vars, memory_vars, prompt_vars,
                           upload_vars>>

\* sorted(..., key=lambda s: s["created"], reverse=True) put in ascending
\* order.
RECURSIVE SortedByCreated_ascending(_)
SortedByCreated_ascending(values) ==
    IF values = <<>> THEN <<>>
    ELSE LET rest == SortedByCreated_ascending(SubSeq(values, 1, Len(values) - 1))
             x    == values[Len(values)]
             k    == Cardinality({i \in DOMAIN rest :
                                    ~StrLess(x.created, rest[i].created)})
         IN  SubSeq(rest, 1, k) \o <<x>> \o SubSeq(rest, k + 1, Len(rest))

\* sorted(values, key=lambda s: s["created"], reverse=True): descending by
\* "created", values of equal key in their original order.
RECURSIVE SortedByCreated(_)
SortedByCreated(values) ==
    IF values = <<>> THEN <<>>
    ELSE LET rest == SortedByCreated(SubSeq(values, 1, Len(values) - 1))
             x    == values[Len(values)]
             k    == Cardinality({i \in DOMAIN rest :
                                    ~StrLess(rest[i].created, x.created)})
         IN  SubSeq(rest, 1, k) \o <<x>> \o SubSeq(rest, k + 1, Len(rest))

\* SESSIONS.values(): the conversations in the order they were inserted.
Values(store) == [i \in 1..Cardinality(DOMAIN store) |-> store[i]]

\* GET /sessions
list_sessions ==
    /\ Started < MaxRequests
    /\ served' = BagAdd(served,
                        [Exchange("sessions_list", NoSessionId, None,
                                  NoSessionId, 200, NoSessionId, None, <<>>,
                                  None, <<>>)
                           EXCEPT !.sessions = SortedByCreated(Values(SESSIONS))])
    /\ UNCHANGED <<SESSIONS, clock, session, inflight, topic_vars, memory_vars,
                   prompt_vars, upload_vars>>

\* The session ids a client may put in the path of a request.
PathSessionIds == {UnknownId} \cup DOMAIN SESSIONS

\* SESSIONS.get(session_id) finds no conversation: 404.
SessionNotFound == <<"S","e","s","s","i","o","n"," ","n","o","t"," ","f","o","u","n","d">>

\* GET /sessions/<session_id>
get_session ==
    \E session_id \in PathSessionIds :
        /\ Started < MaxRequests
        /\ served' =
             BagAdd(served,
                    IF session_id \in DOMAIN SESSIONS
                    THEN [Exchange("session_get", session_id, None, session_id,
                                   200, NoSessionId, None, <<>>, None, <<>>)
                            EXCEPT !.sessions = <<SESSIONS[session_id]>>]
                    ELSE Exchange("session_get", session_id, None, NoSessionId,
                                  404, NoSessionId, None, <<>>, SessionNotFound,
                                  <<>>))
        /\ UNCHANGED <<SESSIONS, clock, session, inflight, topic_vars,
                       memory_vars, prompt_vars, upload_vars>>

\* The store after a rename that sets the title of every conversation when
\* the id is unknown.
Renamed_all(store, session_id, title) ==
    IF ~Truthy(title) THEN store
    ELSE IF session_id \in DOMAIN store
    THEN [store EXCEPT ![session_id].title = title]
    ELSE [id \in DOMAIN store |-> [store[id] EXCEPT !.title = title]]

\* The store after a rename that puts a new conversation with the title in
\* the place of the one found.
Renamed_recreated(store, session_id, title) ==
    IF session_id \in DOMAIN store /\ Truthy(title)
    THEN [store EXCEPT ![session_id].title = title,
                       ![session_id].messages = <<>>,
                       ![session_id].sections = <<>>]
    ELSE store

\* The store after rename_session: s["title"] = title when the conversation
\* is found and the title is not empty.
Renamed(store, session_id, title) ==
    IF session_id \in DOMAIN store /\ Truthy(title)
    THEN [store EXCEPT ![session_id].title = title]
    ELSE store

\* POST /sessions/<session_id>/rename
rename_session ==
    \E session_id \in PathSessionIds, raw \in RawTitles :
        LET title == Strip(OrEmpty(raw))
            store == Renamed(SESSIONS, session_id, title)
        IN  /\ Started < MaxRequests
            /\ SESSIONS' = store
            /\ served' =
                 BagAdd(served,
                        IF session_id \in DOMAIN SESSIONS
                        THEN [Exchange("session_rename", session_id, raw,
                                       session_id, 200, NoSessionId, None, <<>>,
                                       None, <<>>)
                                EXCEPT !.sessions = <<store[session_id]>>]
                        ELSE Exchange("session_rename", session_id, raw,
                                      NoSessionId, 404, NoSessionId, None, <<>>,
                                      SessionNotFound, <<>>))
            /\ UNCHANGED <<clock, session, inflight, topic_vars, memory_vars,
                           prompt_vars, upload_vars>>

\* The session ids a client may send: none, one of the store, an unknown one.
PayloadSessionIds == {NoSessionId, UnknownId} \cup DOMAIN SESSIONS

\* POST /chat_session with no message text: 400 before anything else.
chat_session_rejected ==
    \E raw \in RawMessages, sid \in PayloadSessionIds :
        /\ Started < MaxRequests
        /\ ~Truthy(MessageOf(raw))
        /\ served' = BagAdd(served,
                            Exchange("chat_session", sid, MessageOf(raw),
                                     NoSessionId, 400,
                                     NoSessionId, None, <<>>, EmptyMessage,
                                     <<>>))
        /\ UNCHANGED <<SESSIONS, clock, session, inflight, topic_vars,
                       memory_vars, prompt_vars, upload_vars>>

\* POST /chat_session, app.py:622-635: the conversation is looked up or
\* created and the user message is appended to it.
chat_session_begin ==
    \E raw \in RawMessages, sid \in PayloadSessionIds :
        LET user_msg == MessageOf(raw)
            known    == KnownSession(SESSIONS, sid)
            id       == IF known THEN sid ELSE FreshId(SESSIONS)
            store    == IF known THEN SESSIONS
                        ELSE create_session(SESSIONS, id, clock + 1, DefaultTitle)
        IN  /\ Started < MaxRequests
            /\ Truthy(user_msg)
            /\ SESSIONS' = [store EXCEPT ![id].messages =
                               Append(@, StoreMessage("user", user_msg))]
            /\ clock' = IF known THEN clock ELSE clock + 1
            /\ inflight' = BagAdd(inflight, Frame(sid, user_msg, id))
            /\ UNCHANGED <<session, served, topic_vars, memory_vars, prompt_vars,
                           upload_vars>>

\* The sections given to the memory builder with one more for the user
\* message just appended.
MemorySections_with_current(conv) ==
    Append(conv.sections, Section(<<>>, conv.messages[Len(conv.messages)].content, <<>>))

\* s.get("sections", []): the sections the memory builder is given.
MemorySections(conv) == conv.sections

\* app.py:637-657: the topic is updated, the session memory built and the
\* retrieval call made. The retrieval writes the handler's locals only, so
\* it is joined to the step before it: no step of another request run
\* during the call can tell the difference.
chat_session_prepare ==
    \E f \in BagToSet(inflight), docs \in SearchResults :
        LET c  == ConversationOf(f)
            last_topic    == SESSIONS[c].current_topic
            current_topic == extract_topic(f.user_msg, last_topic)
        IN  /\ f.pc = "prepare"
            /\ SESSIONS' = [SESSIONS EXCEPT ![c].current_topic =
                               OrEmpty(current_topic)]
            /\ inflight' =
                 BagAdd(BagRemove(inflight, f),
                        [f EXCEPT
                           !.current_topic = current_topic,
                           !.session_memory_text =
                               build_session_memory_sections(
                                   MemorySections(SESSIONS[c]), current_topic,
                                   DefaultLimit, DefaultMaxChars),
                           !.retrieved = docs,
                           !.messages =
                               build_hybrid_messages(
                                   f.user_msg, docs,
                                   ExtraSystemMsgs(
                                       build_session_memory_sections(
                                           MemorySections(SESSIONS[c]), current_topic,
                                           DefaultLimit, DefaultMaxChars))),
                           !.pc = "generate"])
            /\ UNCHANGED <<clock, session, served, topic_vars, memory_vars, prompt_vars,
                           upload_vars>>

\* app.py:637-654, 725-732: the topic is updated and search_azure raises
\* while it reads the provider's results; line 654 is outside the try block,
\* so the error handler answers 500 and no generation call is made.
chat_session_search_failed ==
    \E f \in BagToSet(inflight) :
        LET c  == ConversationOf(f)
            current_topic == extract_topic(f.user_msg, SESSIONS[c].current_topic)
        IN  /\ f.pc = "prepare"
            /\ SESSIONS' = [SESSIONS EXCEPT ![c].current_topic =
                               OrEmpty(current_topic)]
            /\ inflight' = BagRemove(inflight, f)
            /\ served' = BagAdd(served,
                                Exchange("chat_session", f.payload_session_id,
                                         f.user_msg, c, 500, NoSessionId, None,
                                         <<>>, ErrorText, <<>>))
            /\ UNCHANGED <<clock, session, topic_vars, memory_vars, prompt_vars, upload_vars>>

\* app.py:659-669: the generation call returns an answer and the assistant
\* message is appended. The call's return writes the handler's locals only,
\* so it is joined to the append that follows it.
chat_session_answer ==
    \E f \in BagToSet(inflight), answer \in Answers :
        LET c == ConversationOf(f)
        IN  /\ f.pc = "generate"
            /\ SESSIONS' = [SESSIONS EXCEPT ![c].messages =
                               Append(@, StoreMessage("assistant", answer))]
            /\ inflight' = BagAdd(BagRemove(inflight, f),
                                  [f EXCEPT !.ai_msg = answer,
                                            !.pc = "append_section"])
            /\ UNCHANGED <<clock, session, served, topic_vars, memory_vars, prompt_vars,
                           upload_vars>>

\* The store after an except branch that records the error text as the
\* assistant message of the turn.
AfterGenerationError_recorded(store, c, error) ==
    [store EXCEPT ![c].messages = Append(@, StoreMessage("assistant", error))]

\* The store after the except branch of lines 696-698, which writes nothing
\* to the conversation.
AfterGenerationError(store, c, error) == store

\* app.py:659-666, 696-698: the generation call raises; 500.
chat_session_generate_failed ==
    \E f \in BagToSet(inflight) :
        LET c == ConversationOf(f)
        IN
        /\ f.pc = "generate"
        /\ inflight' = BagRemove(inflight, f)
        /\ served' = BagAdd(served,
                            Exchange("chat_session", f.payload_session_id,
                                     f.user_msg, c, 500, NoSessionId, None, <<>>,
                                     ErrorText, f.messages))
        /\ SESSIONS' = AfterGenerationError(SESSIONS, c, ErrorText)
        /\ UNCHANGED <<clock, session, topic_vars, memory_vars, prompt_vars, upload_vars>>

\* app.py:671-695: the section is appended and the answer returned; 200.
chat_session_append_section ==
    \E f \in BagToSet(inflight) :
        LET c == ConversationOf(f)
        IN  /\ f.pc = "append_section"
            /\ SESSIONS' = [SESSIONS EXCEPT ![c].sections =
                               Append(@, Section(IsoFormat(clock + 1),
                                                 f.user_msg, f.ai_msg))]
            /\ clock' = clock + 1
            /\ inflight' = BagRemove(inflight, f)
            /\ served' = BagAdd(served,
                                Exchange("chat_session", f.payload_session_id,
                                         f.user_msg, c, 200, f.session_id,
                                         f.ai_msg, Sources(f.retrieved),
                                         None, f.messages))
            /\ UNCHANGED <<session, topic_vars, memory_vars, prompt_vars, upload_vars>>

\* app.py:377-388: the Flask session with the keys /chat needs.
EnsureSessionKeys(sess) ==
    LET s1 == IF "history" \in DOMAIN sess THEN sess
              ELSE SetKey(sess, "history",
                          <<HistoryMessage("system", SeedContent)>>)
        s2 == IF "sections" \in DOMAIN s1 THEN s1
              ELSE SetKey(s1, "sections", <<>>)
    IN  IF "current_topic" \in DOMAIN s2 THEN s2
        ELSE SetKey(s2, "current_topic", <<>>)

\* The session after the append of the user message, the topic left for
\* the end of a successful turn.
SessionWithUserMessage_topic_kept(sess, user_msg) ==
    [EnsureSessionKeys(sess) EXCEPT !.history = Append(@, HistoryMessage("user", user_msg))]

\* app.py:390-398: the session after the topic update and the append of the
\* user message to the history list it holds.
SessionWithUserMessage(sess, user_msg) ==
    LET s1 == EnsureSessionKeys(sess)
        current_topic == extract_topic(user_msg, s1.current_topic)
    IN  [s1 EXCEPT !.current_topic = OrEmpty(current_topic),
                   !.history = Append(@, HistoryMessage("user", user_msg))]

\* app.py:390-414: the messages /chat gives the generation call.
ChatPrompt(sess, user_msg, docs) ==
    LET s1 == EnsureSessionKeys(sess)
        current_topic == extract_topic(user_msg, s1.current_topic)
    IN  build_hybrid_messages(
            user_msg, docs,
            ExtraSystemMsgs(build_session_memory_sections(
                                s1.sections, current_topic,
                                DefaultLimit, DefaultMaxChars)))

\* POST /chat with no message text: 400, the session is not touched.
chat_rejected ==
    \E raw \in RawMessages :
        /\ Started < MaxRequests
        /\ ~Truthy(MessageOf(raw))
        /\ served' = BagAdd(served,
                            Exchange("chat", NoSessionId, MessageOf(raw),
                                     NoSessionId, 400,
                                     NoSessionId, None, <<>>, EmptyMessage,
                                     <<>>))
        /\ UNCHANGED <<SESSIONS, clock, session, inflight, topic_vars,
                       memory_vars, prompt_vars, upload_vars>>

\* POST /chat whose generation call returns an answer: app.py:372-465. The
\* Flask session is the request's own copy, read from the client's cookie
\* and written back with the response; the one client sends its /chat
\* requests one after another, so the handler is one step.
chat ==
    \E raw \in RawMessages, docs \in SearchResults, answer \in Answers :
        LET user_msg == MessageOf(raw)
            s1 == SessionWithUserMessage(session, user_msg)
        IN  /\ Started < MaxRequests
            /\ Truthy(user_msg)
            /\ session' =
                 [s1 EXCEPT
                    !.history = Append(@, HistoryMessage("assistant", answer)),
                    !.sections = Append(@, Section(IsoFormat(clock + 1),
                                                   user_msg, answer))]
            /\ clock' = clock + 1
            /\ served' = BagAdd(served,
                                Exchange("chat", NoSessionId, user_msg,
                                         NoSessionId, 200,
                                         NoSessionId, answer, Sources(docs),
                                         None,
                                         ChatPrompt(session, user_msg, docs)))
            /\ UNCHANGED <<SESSIONS, inflight, topic_vars, memory_vars, prompt_vars,
                           upload_vars>>

\* POST /chat whose generation call raises: app.py:372-418, 467-488. The
\* session, modified at line 396, is saved as the handler left it.
chat_failed ==
    \E raw \in RawMessages, docs \in SearchResults :
        LET user_msg == MessageOf(raw)
        IN  /\ Started < MaxRequests
            /\ Truthy(user_msg)
            /\ session' = SessionWithUserMessage(session, user_msg)
            /\ served' = BagAdd(served,
                                Exchange("chat", NoSessionId, user_msg,
                                         NoSessionId, 500, NoSessionId,
                                         BackendError \o ErrorText, <<>>,
                                         ErrorText,
                                         ChatPrompt(session, user_msg, docs)))
            /\ UNCHANGED <<SESSIONS, clock, inflight, topic_vars, memory_vars, prompt_vars,
                           upload_vars>>

\* The session after a reset that leaves the sections in it.
Cleared_keeps_sections(sess) == PopKey(PopKey(sess, "history"), "current_topic")

\* The session after the three session.pop calls of reset_history.
Cleared(sess) == PopKey(PopKey(PopKey(sess, "history"), "sections"), "current_topic")

\* POST /chat whose search_azure call raises while it reads the provider's
\* results: app.py:372-413, 725-732. Line 413 is outside the try block: the
\* error handler answers 500, no generation call is made, and the session,
\* modified at line 396, is saved as the handler left it.
chat_search_failed ==
    \E raw \in RawMessages :
        LET user_msg == MessageOf(raw)
        IN  /\ Started < MaxRequests
            /\ Truthy(user_msg)
            /\ session' = SessionWithUserMessage(session, user_msg)
            /\ served' = BagAdd(served,
                                Exchange("chat", NoSessionId, user_msg,
                                         NoSessionId, 500, NoSessionId, None,
                                         <<>>, ErrorText, <<>>))
            /\ UNCHANGED <<SESSIONS, clock, inflight, topic_vars, memory_vars, prompt_vars,
                           upload_vars>>

\* POST /reset_history
reset_history ==
    /\ DOMAIN session # {}
    /\ session' = Cleared(session)
    /\ UNCHANGED <<SESSIONS, clock, inflight, served, topic_vars, memory_vars, prompt_vars,
                   upload_vars>>

Init == AppOff /\ TopicOff /\ MemoryOff /\ PromptOff /\ UploadOff

Next ==
    \/ create_session_route
    \/ list_sessions
    \/ get_session
    \/ rename_session
    \/ chat_session_rejected
    \/ chat_session_begin
    \/ chat_session_prepare
    \/ chat_session_search_failed
    \/ chat_session_answer
    \/ chat_session_generate_failed
    \/ chat_session_append_section
    \/ chat_rejected
    \/ chat
    \/ chat_failed
    \/ chat_search_failed
    \/ reset_history

Spec == Init /\ [][Next]_vars

-----------------------------------------------------------------------------
(* The routes of the conversation store applied to a store that already    *)
(* holds conversations                                                     *)

\* The most conversations of a store the routes are tried on.
MaxStored == 3

\* The clock readings at which those conversations were created.
MaxReading == 3

\* The stores tried: up to MaxStored conversations created by POST /sessions,
\* in the order of their ids, at readings of datetime.utcnow() that do not
\* decrease and may be equal (a clock coarser than the time between two
\* creations).
CreatedReadings ==
    UNION { { r \in [1..n -> 1..MaxReading] : \A i \in 1..(n - 1) : r[i] <= r[i + 1] } : n \in 0..MaxStored }

RECURSIVE StoreCreatedAt(_)
StoreCreatedAt(r) ==
    IF r = <<>> THEN <<>>
    ELSE create_session(StoreCreatedAt(SubSeq(r, 1, Len(r) - 1)), Len(r), r[Len(r)], DefaultTitle)

StoreInit ==
    /\ \E r \in CreatedReadings : SESSIONS = StoreCreatedAt(r)
    /\ clock = MaxReading
    /\ session = <<>>
    /\ inflight = EmptyBag
    /\ served = EmptyBag
    /\ TopicOff /\ MemoryOff /\ PromptOff /\ UploadOff

StoreNext ==
    \/ create_session_route
    \/ list_sessions
    \/ get_session
    \/ rename_session

SpecStore == StoreInit /\ [][StoreNext]_vars

-----------------------------------------------------------------------------
(* The chunked PDF upload: upload_large_pdf (download_pdfs.py)             *)

\* BLOCK_SIZE = 4 * 1024 * 1024
BLOCK_SIZE == 4 * 1024 * 1024

\* A bytes value is kept as the stretch of offsets of the downloaded file it
\* holds, from `from` up to `to` excluded; the file itself is the stretch
\* from 0 to its length.
Bytes(n) == [from |-> 0, to |-> n]

\* len(data)
ByteLen(d) == d.to - d.from

\* The slice reaching one byte into the next block.
ByteSlice_overlapping(d, i, j) ==
    [from |-> Min(d.from + i, d.to), to |-> Min(d.from + j + 1, d.to)]

\* data[i:j] for 0 <= i <= j
ByteSlice(d, i, j) ==
    [from |-> Min(d.from + i, d.to), to |-> Min(d.from + j, d.to)]

\* f"{index:05}"
ZeroPad5(index) ==
    LET digits == Decimal(index)
    IN  [i \in 1..Max(0, 5 - Len(digits)) |-> "0"] \o digits

\* f"block-{index:05}".encode("utf-8")
BlockId(index) == <<"b", "l", "o", "c", "k", "-">> \o ZeroPad5(index)

\* The most whole blocks of the data tried.
MaxBlocks == 3

\* The data tried: up to MaxBlocks whole blocks, alone or followed by a
\* last block of one byte, two bytes, or two bytes or one byte less than a
\* block.
UploadData ==
    { Bytes(k * BLOCK_SIZE + d) : k \in 0..MaxBlocks, d \in {0, 1, 2, BLOCK_SIZE - 2, BLOCK_SIZE - 1} }

UploadInit ==
    /\ u_pc = "stage"
    /\ u_data \in UploadData
    /\ u_index = 0
    /\ u_blocks = <<>>
    /\ u_staged = <<>>
    /\ u_committed = <<>>
    /\ TopicOff /\ MemoryOff /\ PromptOff /\ AppOff

\* One pass of the loop of lines 125-131: the next block is staged and its
\* id kept.
StageBlock ==
    LET i        == u_index * BLOCK_SIZE
        block_id == BlockId(u_index)
        chunk    == ByteSlice(u_data, i, i + BLOCK_SIZE)
    IN  /\ u_pc = "stage"
        /\ i < ByteLen(u_data)
        /\ u_staged' = Append(u_staged, [id |-> block_id, data |-> chunk])
        /\ u_blocks' = Append(u_blocks, [id |-> block_id])
        /\ u_index' = u_index + 1
        /\ UNCHANGED <<u_pc, u_data, u_committed, topic_vars, memory_vars,
                       prompt_vars, app_vars>>

\* blob_client.stage_block raises: the exception leaves upload_large_pdf and
\* process reports it (lines 172-177).
StageBlockRaises ==
    /\ u_pc = "stage"
    /\ u_index * BLOCK_SIZE < ByteLen(u_data)
    /\ u_pc' = "failed"
    /\ UNCHANGED <<u_data, u_index, u_blocks, u_staged, u_committed,
                   topic_vars, memory_vars, prompt_vars, app_vars>>

\* Lines 133-136, after the loop: the block list is committed.
CommitBlockList ==
    /\ u_pc = "stage"
    /\ u_index * BLOCK_SIZE >= ByteLen(u_data)
    /\ u_committed' = [i \in DOMAIN u_blocks |-> u_blocks[i].id]
    /\ u_pc' = "committed"
    /\ UNCHANGED <<u_data, u_index, u_blocks, u_staged, topic_vars,
                   memory_vars, prompt_vars, app_vars>>

\* blob_client.commit_block_list raises.
CommitBlockListRaises ==
    /\ u_pc = "stage"
    /\ u_index * BLOCK_SIZE >= ByteLen(u_data)
    /\ u_pc' = "failed"
    /\ UNCHANGED <<u_data, u_index, u_blocks, u_staged, u_committed,
                   topic_vars, memory_vars, prompt_vars, app_vars>>

UploadNext ==
    \/ StageBlock
    \/ StageBlockRaises
    \/ CommitBlockList
    \/ CommitBlockListRaises

SpecUpload == UploadInit /\ [][UploadNext]_vars

-----------------------------------------------------------------------------
(* Claims about the web backend (checked under Spec)                       *)

\* The number of elements of a bag that satisfy P.
BagCount(bag, P(_)) ==
    LET sub == {e \in DOMAIN bag : P(e)}
    IN  IF sub = {} THEN 0 ELSE BagCardinality([e \in sub |-> bag[e]])

\* The number of entries of a list that satisfy P.
Occurrences(seq, P(_)) == Cardinality({i \in DOMAIN seq : P(seq[i])})

\* The message texts a handler accepts.
ValidTexts == {MessageOf(raw) : raw \in RawMessages} \ {<<>>}

\* After `offset` leading messages the list is user/assistant pairs, one per
\* section, the i-th section holding the texts of the i-th pair.
Lockstep(messages, sections, offset) ==
    /\ Len(messages) = offset + 2 * Len(sections)
    /\ \A i \in DOMAIN sections :
          /\ messages[offset + 2 * i - 1].role = "user"
          /\ messages[offset + 2 * i - 1].content = sections[i].query
          /\ messages[offset + 2 * i].role = "assistant"
          /\ messages[offset + 2 * i].content = sections[i].answer

\* C1: whenever no message submission is under way, every conversation of
\* the store has len(messages) = 2 * len(sections), the single ongoing
\* conversation has len(history) = 1 + 2 * len(sections), and the i-th
\* section holds the texts of the i-th user/assistant pair. The code breaks
\* it: a submission whose generation call fails leaves its user message.
C1_Lockstep ==
    inflight = EmptyBag =>
        /\ \A c \in DOMAIN SESSIONS :
              Lockstep(SESSIONS[c].messages, SESSIONS[c].sections, 0)
        /\ "history" \in DOMAIN session =>
              Lockstep(session.history, session.sections, 1)

\* The /chat_session submissions completed with `status` on conversation c.
Completed(c, status) ==
    BagCount(served, LAMBDA x : /\ x.endpoint = "chat_session"
                                /\ x.s = c
                                /\ x.status = status)

\* The /chat_session submissions under way on conversation c.
UnderWay(c) == BagCount(inflight, LAMBDA f : f.s = c)

\* An exchange of the given endpoint and status completes in this step.
Completes(endpoint, status) ==
    \E x \in BagToSet(served') :
        /\ x.endpoint = endpoint
        /\ x.status = status
        /\ served' = BagAdd(served, x)

\* C2: recording a turn is all-or-nothing. For the store: once the
\* submissions on a conversation are complete, it holds two messages and
\* one section for each that succeeded and nothing for those that failed.
\* For the single conversation: a /chat whose generation fails leaves the
\* history and the sections as they were, one that succeeds adds one user
\* message, one assistant message and one section. The code breaks both
\* halves: the user message is appended before the generation call.
C2_AllOrNothing ==
    /\ [](\A c \in DOMAIN SESSIONS :
            UnderWay(c) = 0 =>
                /\ Len(SESSIONS[c].messages) = 2 * Completed(c, 200)
                /\ Len(SESSIONS[c].sections) = Completed(c, 200))
    /\ [][LET before == EnsureSessionKeys(session)
          IN  /\ Completes("chat", 500) =>
                    /\ session'.history = before.history
                    /\ session'.sections = before.sections
              /\ Completes("chat", 200) =>
                    /\ Len(session'.history) = Len(before.history) + 2
                    /\ SubSeq(session'.history, 1, Len(before.history))
                           = before.history
                    /\ Len(session'.sections) = Len(before.sections) + 1
                    /\ SubSeq(session'.sections, 1, Len(before.sections))
                           = before.sections]_vars

\* C3: once two submissions on the same conversation have both completed
\* with an answer (and none has failed), its messages are adjacent
\* user/assistant pairs, each the texts of one of the submissions, and the
\* k-th section matches the k-th pair. The code breaks it: the handlers take
\* no lock, so the appends of two handlers interleave.
C3_SameConversationAtomic ==
    \A c \in DOMAIN SESSIONS :
        (UnderWay(c) = 0 /\ Completed(c, 500) = 0 /\ Completed(c, 200) = 2) =>
            /\ Lockstep(SESSIONS[c].messages, SESSIONS[c].sections, 0)
            /\ \A t \in ValidTexts :
                  Occurrences(SESSIONS[c].sections, LAMBDA s : s.query = t)
                    = BagCount(served, LAMBDA x : /\ x.endpoint = "chat_session"
                                                  /\ x.s = c
                                                  /\ x.status = 200
                                                  /\ x.message = t)

\* The submissions with text t that have appended their user message to c.
UserAppends(c, t) ==
    BagCount(inflight, LAMBDA f : f.s = c /\ f.user_msg = t)
    + BagCount(served, LAMBDA x : /\ x.endpoint = "chat_session"
                                  /\ x.s = c
                                  /\ x.status \in {200, 500}
                                  /\ x.message = t)

\* The submissions that have appended their assistant message to c.
AssistantAppends(c) ==
    BagCount(inflight, LAMBDA f : f.s = c /\ f.pc = "append_section")
    + Completed(c, 200)

\* C4: however submissions on distinct conversations interleave, a
\* conversation holds the messages and sections of the submissions made on
\* it and no others: each user text as often as submissions on it appended
\* it, as many assistant messages as submissions on it appended, each
\* section text as often as submissions on it succeeded with it. After N
\* successful turns and no other, it holds N sections and 2 * N messages.
C4_NoCrossRecording ==
    \A c \in DOMAIN SESSIONS :
        LET conv == SESSIONS[c]
        IN  /\ \A i \in DOMAIN conv.messages :
                  \/ conv.messages[i].role = "assistant"
                  \/ /\ conv.messages[i].role = "user"
                     /\ conv.messages[i].content \in ValidTexts
            /\ \A t \in ValidTexts :
                  /\ Occurrences(conv.messages,
                                 LAMBDA m : m.role = "user" /\ m.content = t)
                        = UserAppends(c, t)
                  /\ Occurrences(conv.sections, LAMBDA s : s.query = t)
                        = BagCount(served,
                                   LAMBDA x : /\ x.endpoint = "chat_session"
                                              /\ x.s = c
                                              /\ x.status = 200
                                              /\ x.message = t)
            /\ Occurrences(conv.messages, LAMBDA m : m.role = "assistant")
                  = AssistantAppends(c)
            /\ Len(conv.sections) = Completed(c, 200)
            /\ (UnderWay(c) = 0 /\ Completed(c, 500) = 0) =>
                  Len(conv.messages) = 2 * Len(conv.sections)

\* C4's case: two conversations created by two submissions, the one created
\* first answered last, each holding its own submission's turn.
C4_Witness ==
    /\ DOMAIN SESSIONS = {1, 2}
    /\ SESSIONS[1].created = IsoFormat(1)
    /\ SESSIONS[2].created = IsoFormat(2)
    /\ Len(SESSIONS[1].sections) = 1
    /\ Len(SESSIONS[2].sections) = 1
    /\ SESSIONS[2].sections[1].timestamp = IsoFormat(3)
    /\ SESSIONS[1].sections[1].timestamp = IsoFormat(4)
    /\ SESSIONS[1].sections[1].query # SESSIONS[2].sections[1].query
    /\ Len(SESSIONS[1].messages) = 2
    /\ Len(SESSIONS[2].messages) = 2

\* An exchange completes in this step.
Serves(x) == x \in BagToSet(served') /\ served' = BagAdd(served, x)

\* C18: fetching or renaming a conversation answers 404 "Session not found"
\* exactly when the id is not in the store, which no generation failure
\* answers (500), and then leaves the store as it was: no conversation
\* created, no title modified.
C18_UnknownIdNotFound ==
    [][\A x \in BagToSet(served') :
          (Serves(x) /\ x.endpoint \in {"session_get", "session_rename"}) =>
              /\ x.status = 404 <=> x.payload_session_id \notin DOMAIN SESSIONS
              /\ x.status = 404 =>
                    /\ x.error = SessionNotFound
                    /\ x.sessions = <<>>
                    /\ SESSIONS' = SESSIONS
                    /\ \A y \in BagToSet(served') :
                          y.status = 500 => y.error # x.error]_vars

\* C18's case: a rename to "tata" under an unknown id was answered 404 and
\* the conversation of the store still has its title.
C18_Witness ==
    /\ DOMAIN SESSIONS = {1}
    /\ SESSIONS[1].title = DefaultTitle
    /\ SESSIONS[1].created = IsoFormat(1)
    /\ clock = 1
    /\ \E x \in BagToSet(served) :
          /\ x.endpoint = "session_rename"
          /\ x.payload_session_id = UnknownId
          /\ x.message = W_tata
          /\ x.status = 404

\* A /chat_session handler passes line 635 in this step with the locals f.
Begins(f) == f \in BagToSet(inflight') /\ inflight' = BagAdd(inflight, f) /\ f.pc = "prepare"

\* The conversation a message submitted without a known id starts.
FirstTurnOf(f) == [create_session(<<>>, f.s, 0, DefaultTitle)[f.s] EXCEPT !.created = SESSIONS'[f.s].created, !.messages = <<StoreMessage("user", f.user_msg)>>]

\* C19, the submission: with an absent or unknown id exactly one
\* conversation is created, with an empty topic, no section and no message
\* but the one submitted, and its id is the one the handler returns; with a
\* known id no conversation is created, the message is appended to that
\* conversation and the id stays.
C19_BeginCreatesOrReuses ==
    \A f \in BagToSet(inflight') :
        Begins(f) =>
            /\ f.session_id = f.s
            /\ \A id \in DOMAIN SESSIONS \ {f.s} : SESSIONS'[id] = SESSIONS[id]
            /\ IF f.payload_session_id \in DOMAIN SESSIONS
               THEN /\ DOMAIN SESSIONS' = DOMAIN SESSIONS
                    /\ f.s = f.payload_session_id
                    /\ SESSIONS' = [SESSIONS EXCEPT ![f.s].messages = Append(@, StoreMessage("user", f.user_msg))]
               ELSE /\ f.s \notin DOMAIN SESSIONS
                    /\ DOMAIN SESSIONS' = DOMAIN SESSIONS \cup {f.s}
                    /\ SESSIONS'[f.s] = FirstTurnOf(f)

\* C19, the answer: the exchange returns the id of the conversation that
\* holds the turn (the id sent, when it was known).
C19_ReturnsItsId ==
    \A x \in BagToSet(served') :
        (Serves(x) /\ x.endpoint = "chat_session" /\ x.status = 200) =>
            /\ x.session_id = x.s
            /\ x.s \in DOMAIN SESSIONS'
            /\ x.payload_session_id \in DOMAIN SESSIONS' => x.session_id = x.payload_session_id
            /\ \E i \in DOMAIN SESSIONS'[x.s].messages : SESSIONS'[x.s].messages[i] = StoreMessage("user", x.message)
            /\ \E i \in DOMAIN SESSIONS'[x.s].messages : SESSIONS'[x.s].messages[i] = StoreMessage("assistant", x.response)
            /\ \E i \in DOMAIN SESSIONS'[x.s].sections : /\ SESSIONS'[x.s].sections[i].query = x.message
                                                          /\ SESSIONS'[x.s].sections[i].answer = x.response

\* C19, the store: conversations are never removed, and a step that adds
\* one is a submission without a known id or the explicit create call.
C19_OnlyTheseCreate ==
    /\ DOMAIN SESSIONS \subseteq DOMAIN SESSIONS'
    /\ DOMAIN SESSIONS' # DOMAIN SESSIONS =>
          /\ Cardinality(DOMAIN SESSIONS') = Cardinality(DOMAIN SESSIONS) + 1
          /\ \/ \E f \in BagToSet(inflight') : Begins(f) /\ f.payload_session_id \notin DOMAIN SESSIONS
             \/ \E x \in BagToSet(served') : Serves(x) /\ x.endpoint = "sessions" /\ x.status = 201

\* C19: a message submitted to /chat_session without a known conversation id
\* creates exactly one new, empty conversation, records the turn in it and
\* returns its id; with a known id it creates none and returns that id; only
\* this and POST /sessions create conversations, and none is ever removed.
C19_CreatedOnFirstMessage ==
    [][C19_BeginCreatesOrReuses /\ C19_ReturnsItsId /\ C19_OnlyTheseCreate]_vars

\* C19's case: a store that held one conversation got a second one from a
\* message submitted under an unknown id, and the answer carried the new id.
C19_Witness ==
    /\ DOMAIN SESSIONS = {1, 2}
    /\ SESSIONS[1].messages = <<>>
    /\ \E x \in BagToSet(served) :
          /\ x.endpoint = "chat_session"
          /\ x.payload_session_id = UnknownId
          /\ x.status = 200
          /\ x.session_id = 2
          /\ SESSIONS[2].messages = <<StoreMessage("user", x.message), StoreMessage("assistant", x.response)>>

\* The conversations of a listing in the order of the response.
Listed(x) == [i \in DOMAIN x.sessions |-> x.sessions[i].id]

-----------------------------------------------------------------------------
(* Claims about the session memory builder (checked under SpecMemory)      *)

\* C8: for every sequence of sections, topic, limit and max_chars >= 0 the
\* string the builder returns is at most max_chars long, and the call leaves
\* its input section sequence as it was.
C8_MemoryWithinMaxChars ==
    [][ m_pc' = "output" =>
          /\ m_max_chars >= 0 => Len(m_text') <= m_max_chars
          /\ m_sections' = m_sections ]_vars

\* A call whose rendering is longer than max_chars and is cut to it.
C8_Witness ==
    /\ m_pc = "output"
    /\ m_max_chars = MidCut
    /\ Len(RenderSections(m_kept)) > m_max_chars
    /\ Len(m_text) = m_max_chars

\* The last n elements of a sequence (all of it when it has fewer).
LastN(seq, n) == SubSeq(seq, Len(seq) - Min(n, Len(seq)) + 1, Len(seq))

\* The first n characters of a text.
FirstN(text, n) == SubSeq(text, 1, Min(n, Len(text)))

\* The topic, trimmed and lowercased, is in the section's query or answer.
TopicIn(topic, s) ==
    \/ Contains(Lower(s.query), Lower(Strip(OrEmpty(topic))))
    \/ Contains(Lower(s.answer), Lower(Strip(OrEmpty(topic))))

NoTopicOrNoMatch(topic, sections) ==
    \/ Strip(OrEmpty(topic)) = <<>>
    \/ \A i \in DOMAIN sections : ~TopicIn(topic, sections[i])

\* C9: when the current topic is empty, or in the query or answer of no
\* section, the memory is the rendering, cut to max_chars, of the last
\* `limit` sections of the unfiltered sequence in their original order.
C9_FallbackIsLastLimitSections ==
    (/\ m_pc = "output"
     /\ m_limit >= 0
     /\ m_max_chars >= 0
     /\ NoTopicOrNoMatch(m_topic, m_sections))
    => m_text = FirstN(RenderSections(LastN(m_sections, m_limit)), m_max_chars)

\* The sections of a sequence that hold the topic, in the sequence's order.
MatchingSections(topic, sections) ==
    LET Holds(s) == TopicIn(topic, s) IN SelectSeq(sections, Holds)

IsSuffix(a, b) ==
    /\ Len(a) <= Len(b)
    /\ a = SubSeq(b, Len(b) - Len(a) + 1, Len(b))

\* The clock reading a section's timestamp was rendered from.
PositionOf(s, sections) == CHOOSE i \in DOMAIN sections : sections[i] = s

\* C10: when the trimmed, lowercased topic is non-empty and in the query or
\* answer of some section (case-insensitively), every section rendered into
\* the memory is such a section, the rendered sections are the chronological
\* tail of the matching ones, and they keep the input's relative order.
C10_TopicFilterKeepsOrder ==
    (/\ m_pc = "output"
     /\ Strip(OrEmpty(m_topic)) # <<>>
     /\ \E i \in DOMAIN m_sections : TopicIn(m_topic, m_sections[i]))
    => /\ \A i \in DOMAIN m_kept : TopicIn(m_topic, m_kept[i])
       /\ IsSuffix(m_kept, MatchingSections(m_topic, m_sections))
       /\ \A i, j \in DOMAIN m_kept :
             i < j => PositionOf(m_kept[i], m_sections)
                        < PositionOf(m_kept[j], m_sections)
       /\ m_max_chars >= 0 =>
             m_text = FirstN(RenderSections(m_kept), m_max_chars)

\* Topic " Cupid " over three sections, the middle one about another
\* company: the first and third are rendered, in that order.
C10_Witness ==
    /\ m_pc = "output"
    /\ m_topic = Space \o W_Cupid \o Space
    /\ Len(m_sections) = 3
    /\ ~TopicIn(m_topic, m_sections[2])
    /\ m_limit = 2
    /\ m_kept = <<m_sections[1], m_sections[3]>>
    /\ m_sections[3].query = W_owner
    /\ m_text = RenderSections(m_kept)

\* The sections the memory is drawn from: the matching ones when the topic
\* is non-empty and some section holds it, all of them otherwise.
Candidates(topic, sections) ==
    IF NoTopicOrNoMatch(topic, sections) THEN sections
    ELSE MatchingSections(topic, sections)

\* C11: for every limit >= 0, limit = 0 included, the builder renders at
\* most `limit` sections: the last `limit` of the matching ones, or of the
\* whole sequence on fallback. The code breaks it at limit = 0, where the
\* slice [-0:] is the whole list.
C11_AtMostLimitSections ==
    (m_pc = "output" /\ m_limit >= 0) =>
        /\ Len(m_kept) <= m_limit
        /\ m_kept = LastN(Candidates(m_topic, m_sections), m_limit)
        /\ m_max_chars >= 0 =>
              m_text = FirstN(RenderSections(
                                LastN(Candidates(m_topic, m_sections), m_limit)),
                              m_max_chars)

\* A topic is set.
TopicSet(topic) == Strip(OrEmpty(topic)) # <<>>

\* The memory text holds no section without the topic.
NoForeignSection(text, kept, topic, sections) ==
    /\ \A i \in DOMAIN kept : TopicIn(topic, kept[i])
    /\ \A i \in DOMAIN sections :
          ~TopicIn(topic, sections[i]) => ~Contains(text, RenderSection(sections[i]))

\* C26 as stated: when a topic is set, the memory built for a turn (the
\* handlers call the builder with its default limit and max_chars) never
\* holds a section that has the topic neither in its query nor in its
\* answer.
C26_NoForeignSection ==
    (/\ m_pc = "output"
     /\ m_limit = DefaultLimit
     /\ m_max_chars = DefaultMaxChars
     /\ TopicSet(m_topic)) =>
        NoForeignSection(m_text, m_kept, m_topic, m_sections)

\* C26 as amended: when a topic is set and some section has it in its query
\* or answer, the memory never holds a section that has the topic in
\* neither; when no section has it, the memory is drawn from the last
\* sections whatever they are about.
C26_NoForeignSectionWhenSomeMatch ==
    (m_pc = "output" /\ TopicSet(m_topic)) =>
        IF \E i \in DOMAIN m_sections : TopicIn(m_topic, m_sections[i])
        THEN NoForeignSection(m_text, m_kept, m_topic, m_sections)
        ELSE m_kept = SliceFrom(m_sections, 0 - m_limit)

\* C26's case: topic "tata" over a section about Cupid and a later one about
\* Tata; the memory is the Tata section alone.
C26_Witness ==
    /\ m_pc = "output"
    /\ m_topic = W_tata
    /\ Len(m_sections) = 2
    /\ ~TopicIn(m_topic, m_sections[1])
    /\ TopicIn(m_topic, m_sections[2])
    /\ m_limit = 2
    /\ m_text = RenderSection(m_sections[2])

-----------------------------------------------------------------------------
(* Claims about the retrieval gate and the prompt assembler (checked under *)
(* SpecPrompt)                                                             *)

StartsWith(text, prefix) ==
    /\ Len(text) >= Len(prefix)
    /\ SubSeq(text, 1, Len(prefix)) = prefix

\* The system messages of a prompt that begin with "Context:\n".
ContextMessagesOf(messages) ==
    SelectSeq(messages,
              LAMBDA msg : msg.role = "system" /\ StartsWith(msg.content, ContextLabel))

\* The context text of a prompt: what follows "Context:\n" in its Context
\* message.
ContextOf(messages) ==
    LET content == ContextMessagesOf(messages)[1].content
    IN  SubSeq(content, Len(ContextLabel) + 1, Len(content))

\* The documents the gate is to keep: score >= 0.35 and a non-empty text.
KeptDocs(retrieved) ==
    SelectSeq(retrieved,
              LAMBDA r : r.score >= RelevanceThreshold /\ r.text # <<>>)

\* The documents the gate is to drop.
DroppedDocs(retrieved) ==
    SelectSeq(retrieved,
              LAMBDA r : ~(r.score >= RelevanceThreshold /\ r.text # <<>>))

\* The blocks of the kept documents, in the retrieved order, joined by a
\* blank line.
KeptRendering(retrieved) ==
    LET kept == KeptDocs(retrieved)
    IN  Join(<<"\n", "\n">>, [i \in DOMAIN kept |-> ContextChunk(kept[i])])

\* C12: the context is made of the blocks of exactly the documents whose
\* score is >= 0.35 (0.35 itself included) and whose text is non-empty, in
\* the retrieved order: it is their blank-line join up to the cut, holds the
\* block of each of them when nothing is cut, and the text of no other
\* document.
C12_GateKeepsRelevantInOrder ==
    p_pc = "generate" =>
        LET context == ContextOf(p_messages)
            kept    == KeptDocs(p_retrieved)
            dropped == DroppedDocs(p_retrieved)
        IN  /\ context = FirstN(KeptRendering(p_retrieved), MaxContextChars)
            /\ Len(KeptRendering(p_retrieved)) <= MaxContextChars =>
                  \A i \in DOMAIN kept : Contains(context, ContextChunk(kept[i]))
            /\ \A i \in DOMAIN dropped :
                  dropped[i].text # <<>> => ~Contains(context, dropped[i].text)

\* C12's case: a document at 0.35 followed by one at 0.34; the context is
\* the block of the first alone.
C12_Witness ==
    /\ p_pc = "generate"
    /\ p_retrieved = <<WrapResult(Raw_boundary), WrapResult(Raw_below)>>
    /\ p_retrieved[1].score = 35
    /\ p_retrieved[2].score = 34
    /\ ContextOf(p_messages) = ContextChunk(p_retrieved[1])

\* No document of the list reaches the threshold (an empty list included).
NoneRelevant(retrieved) ==
    \A i \in DOMAIN retrieved : retrieved[i].score < RelevanceThreshold

\* C13: when the retrieved list is empty or no document reaches the
\* threshold, the assembly goes through to the generation call and the
\* prompt holds one Context message with the empty context.
C13_EmptyContextNoError ==
    /\ (p_pc = "assemble" /\ NoneRelevant(p_retrieved)) => ENABLED Assemble
    /\ (p_pc = "generate" /\ NoneRelevant(p_retrieved)) =>
          /\ Len(ContextMessagesOf(p_messages)) = 1
          /\ ContextMessagesOf(p_messages)[1].content = ContextLabel
          /\ ContextOf(p_messages) = <<>>

\* C13's case: the one document retrieved has a text and the score 0.34.
C13_Witness ==
    /\ p_pc = "generate"
    /\ Len(p_retrieved) = 1
    /\ p_retrieved[1].score = 34
    /\ p_retrieved[1].text # <<>>
    /\ ContextOf(p_messages) = <<>>

\* C14: for every retrieved list the context text is at most 6000
\* characters long and is a prefix of the blank-line join of the blocks of
\* the kept documents.
C14_ContextWithinCut ==
    p_pc = "generate" =>
        /\ Len(ContextOf(p_messages)) <= MaxContextChars
        /\ StartsWith(KeptRendering(p_retrieved), ContextOf(p_messages))

\* C14's case: the blocks of the kept documents are longer than the cut and
\* the context is their first 6000 characters.
C14_Witness ==
    /\ p_pc = "generate"
    /\ Len(KeptDocs(p_retrieved)) = 2
    /\ Len(KeptRendering(p_retrieved)) > MaxContextChars
    /\ Len(ContextOf(p_messages)) = MaxContextChars
    /\ ContextOf(p_messages) # KeptRendering(p_retrieved)

\* The label a block is to carry: the source when the document has one, its
\* doc_id otherwise.
SourceOrDocId(r) == IF Truthy(r.meta.source) THEN r.meta.source ELSE r.doc_id

\* C15: the block of every kept document is labelled with the document's
\* source when it has one and with its doc_id otherwise; so the context is
\* the cut join of the blocks "Source: <source-or-id>\n<text>". The code
\* breaks it for the documents search_azure makes of records with neither
\* storage path nor source: their meta holds the key "source" with None, and
\* the block reads "Source: None".
C15_LabelIsSourceOrDocId ==
    p_pc = "generate" =>
        LET kept == KeptDocs(p_retrieved)
        IN  ContextOf(p_messages)
              = FirstN(Join(<<"\n", "\n">>,
                            [i \in DOMAIN kept |->
                                <<"S","o","u","r","c","e",":"," ">>
                                    \o SourceOrDocId(kept[i]) \o <<"\n">>
                                    \o kept[i].text]),
                       MaxContextChars)

\* C16: the prompt is, in this order, the persona system message, one
\* session-memory system message exactly when the memory text is non-empty,
\* one system message beginning with "Context:\n" (also when the context is
\* empty), and last the user message with the user's text as the assembler
\* received it; nothing else.
C16_PromptOrder ==
    p_pc = "generate" =>
        LET n == Len(p_messages)
            with_memory == p_memory # <<>>
        IN  /\ n = IF with_memory THEN 4 ELSE 3
            /\ p_messages[1] = PromptMessage("system", SystemPrompt)
            /\ with_memory =>
                  p_messages[2] = PromptMessage("system", MemoryLabel \o p_memory)
            /\ Len(SelectSeq(p_messages,
                             LAMBDA msg : StartsWith(msg.content, MemoryLabel)))
                  = IF with_memory THEN 1 ELSE 0
            /\ p_messages[n - 1].role = "system"
            /\ StartsWith(p_messages[n - 1].content, ContextLabel)
            /\ Len(ContextMessagesOf(p_messages)) = 1
            /\ p_messages[n] = PromptMessage("user", p_user_msg)

\* C16's case: a memory text and no relevant document; four messages, the
\* third the empty Context message.
C16_Witness ==
    /\ p_pc = "generate"
    /\ p_memory # <<>>
    /\ Len(p_retrieved) = 1
    /\ NoneRelevant(p_retrieved)
    /\ Len(p_messages) = 4
    /\ p_messages[3] = PromptMessage("system", ContextLabel)

\* The retrieval provider fails: no client is configured, search() raises,
\* or reading its results raises.
RetrievalFails == ~p_client \/ p_provider.raises \/ p_provider.read_raises

\* C23: whatever way the retrieval provider fails, the retrieval ends with
\* an empty document list and the handler goes on to assemble the prompt
\* and make the generation call.
C23_RetrievalNeverBlocksGeneration ==
    /\ p_pc # "error"
    /\ (p_pc = "assemble" /\ RetrievalFails) => (p_retrieved = <<>> /\ ENABLED Assemble)
    /\ (p_pc = "generate" /\ RetrievalFails) => ContextOf(p_messages) = <<>>

\* C23 for the failures search_azure catches: no client configured or
\* search() raising.
C23_CaughtFailuresDegrade ==
    (~p_client \/ p_provider.raises) =>
        /\ p_pc # "error"
        /\ p_pc # "search" => p_retrieved = <<>>
        /\ p_pc = "generate" => ContextOf(p_messages) = <<>>

-----------------------------------------------------------------------------
(* Claims about the prompts of the web backend (checked under Spec)       *)

\* A prompt holds a session-memory message with the query q and the answer a.
HasMemoryOf(messages, q, a) ==
    \E i \in DOMAIN messages :
        /\ messages[i].role = "system"
        /\ StartsWith(messages[i].content, MemoryLabel)
        /\ Contains(messages[i].content, q)
        /\ Contains(messages[i].content, a)

\* A prompt holds no session-memory message.
NoMemoryMessage(messages) ==
    \A i \in DOMAIN messages : ~StartsWith(messages[i].content, MemoryLabel)

\* The handler of frame f prepares its generation call in this step, leaving
\* frame g.
Prepares(f, g) ==
    /\ f \in BagToSet(inflight)
    /\ f.pc = "prepare"
    /\ g \in BagToSet(inflight')
    /\ g.pc = "generate"
    /\ inflight' = BagAdd(BagRemove(inflight, f), g)

\* C17, for the store: the first turn "Cupid Limited" of a new conversation
\* is prepared with no session-memory message and sets the topic "cupid
\* limited"; once it has succeeded, the turn "who is the owner" that
\* follows it leaves the topic "cupid limited" and is prepared with a
\* session-memory message holding the first turn's query and answer.
C17_StoreFollowUp ==
    \A f \in BagToSet(inflight), g \in BagToSet(inflight') :
        Prepares(f, g) =>
            LET conv == SESSIONS[f.s]
            IN  /\ (/\ conv.messages = <<StoreMessage("user", Msg_CupidLimited)>>
                    /\ conv.sections = <<>>)
                   => /\ NoMemoryMessage(g.messages)
                      /\ SESSIONS'[f.s].current_topic = Topic_cupid_limited
                /\ (/\ Len(conv.messages) = 3
                    /\ Len(conv.sections) = 1
                    /\ conv.messages[1] = StoreMessage("user", Msg_CupidLimited)
                    /\ conv.messages[2].role = "assistant"
                    /\ conv.sections[1].query = Msg_CupidLimited
                    /\ conv.sections[1].answer = conv.messages[2].content
                    /\ conv.messages[3] = StoreMessage("user", Msg_WhoIsTheOwner))
                   => /\ SESSIONS'[f.s].current_topic = Topic_cupid_limited
                      /\ HasMemoryOf(g.messages, Msg_CupidLimited,
                                     conv.sections[1].answer)

\* C17, for the single conversation: the same two turns over /chat.
C17_SessionFollowUp ==
    \A x \in BagToSet(served') :
        (/\ x.endpoint = "chat"
         /\ x.status = 200
         /\ served' = BagAdd(served, x))
        => LET before == EnsureSessionKeys(session)
           IN  /\ (/\ Len(before.history) = 1
                   /\ before.sections = <<>>
                   /\ before.current_topic = <<>>
                   /\ x.message = Msg_CupidLimited)
                  => /\ NoMemoryMessage(x.messages)
                     /\ session'.current_topic = Topic_cupid_limited
               /\ (/\ Len(before.history) = 3
                   /\ Len(before.sections) = 1
                   /\ before.history[2] = HistoryMessage("user", Msg_CupidLimited)
                   /\ before.sections[1].query = Msg_CupidLimited
                   /\ before.sections[1].answer = before.history[3].content
                   /\ x.message = Msg_WhoIsTheOwner)
                  => /\ session'.current_topic = Topic_cupid_limited
                     /\ HasMemoryOf(x.messages, Msg_CupidLimited,
                                    before.sections[1].answer)

\* C17: in a new conversation, after a successful turn "Cupid Limited", the
\* turn "who is the owner" keeps the topic "cupid limited" and its prompt
\* holds a session-memory message with the first turn's query and answer;
\* the first turn's prompt holds no session-memory message.
C17_FollowUpUsesMemory == [][C17_StoreFollowUp /\ C17_SessionFollowUp]_vars

\* C17's case: both turns of a conversation of the store have been
\* answered, the second prepared with the memory of the first.
C17_Witness ==
    \E c \in DOMAIN SESSIONS :
        /\ Len(SESSIONS[c].sections) = 2
        /\ SESSIONS[c].sections[1].query = Msg_CupidLimited
        /\ SESSIONS[c].sections[2].query = Msg_WhoIsTheOwner
        /\ SESSIONS[c].current_topic = Topic_cupid_limited
        /\ \E x \in BagToSet(served) :
              /\ x.s = c
              /\ x.status = 200
              /\ x.message = Msg_WhoIsTheOwner
              /\ HasMemoryOf(x.messages, Msg_CupidLimited,
                             SESSIONS[c].sections[1].answer)
        /\ \E x \in BagToSet(served) :
              /\ x.s = c
              /\ x.status = 200
              /\ x.message = Msg_CupidLimited
              /\ NoMemoryMessage(x.messages)

-----------------------------------------------------------------------------
(* Claims about the requests of the web backend (checked under Spec)       *)

\* The single conversation as it is before its first turn.
InitialConversation ==
    [ history       |-> <<HistoryMessage("system", SeedContent)>>,
      sections      |-> <<>>,
      current_topic |-> <<>> ]

\* A /reset_history request is served in this step.
Resets == session' # session /\ served' = served

\* C21, the reset: whatever the session held, after the reset it is the
\* session of a client that has sent nothing, which /chat takes as one seed
\* system message, no section and an empty topic.
C21_ResetClears ==
    Resets => /\ session # <<>>
              /\ session' = <<>>
              /\ EnsureSessionKeys(session') = InitialConversation

\* C21, the next message: a /chat request on a cleared session is handled as
\* a first turn: no session memory in its prompt, the topic computed from an
\* empty previous topic, the history seed, user message and answer only.
C21_NextIsFirstTurn ==
    \A x \in BagToSet(served') :
        (Serves(x) /\ x.endpoint = "chat" /\ x.status # 400 /\ session = <<>>) =>
            /\ NoMemoryMessage(x.messages)
            /\ \/ x.messages = <<>>
               \/ \E docs \in SearchResults : x.messages = build_hybrid_messages(x.message, docs, <<>>)
            /\ session'.current_topic = OrEmpty(extract_topic(x.message, <<>>))
            /\ session'.history[1] = HistoryMessage("system", SeedContent)
            /\ session'.history[2] = HistoryMessage("user", x.message)
            /\ Len(session'.history) = IF x.status = 200 THEN 3 ELSE 2
            /\ Len(session'.sections) = IF x.status = 200 THEN 1 ELSE 0

\* C21: after /reset_history, from any prior state, the single conversation
\* is in its initial state (one seed system message, no section, empty
\* topic) and the next message is handled as the first turn of a fresh
\* conversation.
C21_ResetToInitial == [][C21_ResetClears /\ C21_NextIsFirstTurn]_vars

\* C21's case: "Cupid Limited" was answered, the conversation was reset and
\* "who is the owner" was then answered without memory of the first turn.
C21_Witness ==
    /\ DOMAIN session # {}
    /\ Len(session.history) = 3
    /\ session.history[2] = HistoryMessage("user", Msg_WhoIsTheOwner)
    /\ Len(session.sections) = 1
    /\ session.current_topic = <<>>
    /\ \E x \in BagToSet(served) :
          /\ x.endpoint = "chat" /\ x.status = 200 /\ x.message = Msg_CupidLimited
    /\ \E x \in BagToSet(served) :
          /\ x.endpoint = "chat" /\ x.status = 200 /\ x.message = Msg_WhoIsTheOwner
          /\ NoMemoryMessage(x.messages)

\* C22: a submission whose message text is missing, empty or only
\* whitespace is answered 400 "Empty message", and only such a submission
\* is; the rejecting step makes no retrieval and no generation call (it
\* starts no handler and the exchange carries no prompt and no source) and
\* leaves the store and the single conversation as they were.
C22_EmptyMessageRejected ==
    [][\A x \in BagToSet(served') :
          (Serves(x) /\ x.endpoint \in {"chat", "chat_session"}) =>
              /\ x.status = 400 <=> ~Truthy(Strip(x.message))
              /\ x.status = 400 =>
                    /\ x.error = EmptyMessage
                    /\ x.messages = <<>>
                    /\ x.sources = <<>>
                    /\ x.response = None
                    /\ SESSIONS' = SESSIONS
                    /\ session' = session
                    /\ inflight' = inflight
                    /\ clock' = clock]_vars

\* C22's case: a submission without text, sent under the id of a
\* conversation that holds a message, was rejected.
C22_Witness ==
    \E x \in BagToSet(served) :
        /\ x.endpoint = "chat_session"
        /\ x.status = 400
        /\ x.payload_session_id \in DOMAIN SESSIONS
        /\ SESSIONS[x.payload_session_id].messages # <<>>

\* A /chat_session handler leaves its generation call in this step: f is
\* its frame before the call.
LeavesGeneration(f) ==
    /\ f \in BagToSet(inflight)
    /\ f.pc = "generate"
    /\ BagRemove(inflight, f) \sqsubseteq inflight'
    /\ ~(inflight \sqsubseteq inflight')

\* C24, one call: a handler that has made its generation call goes on to
\* record the answer or ends with 500; it never stands before the call
\* again.
C24_OneCall ==
    \A f \in BagToSet(inflight) :
        LeavesGeneration(f) =>
            \/ /\ \E x \in BagToSet(served') : Serves(x) /\ x.status = 500 /\ x.messages = f.messages
               /\ inflight' = BagRemove(inflight, f)
            \/ /\ served' = served
               /\ \E g \in BagToSet(inflight') :
                     /\ g.pc = "append_section"
                     /\ g.ai_msg # None
                     /\ inflight' = BagAdd(BagRemove(inflight, f), g)

\* C24, the failure on /chat_session: the 500 response carries the error
\* text, and the conversation gets no assistant message and no section.
C24_StoreFailure ==
    \A x \in BagToSet(served') :
        (Serves(x) /\ x.endpoint = "chat_session" /\ x.status = 500 /\ x.messages # <<>>) =>
            /\ Truthy(x.error)
            /\ x.response = None
            /\ SESSIONS' = SESSIONS
            /\ BagCardinality(inflight') = BagCardinality(inflight) - 1

\* C24, the failure on /chat: the 500 response carries the error text, and
\* the history gets the user message only and no section.
C24_SessionFailure ==
    \A x \in BagToSet(served') :
        (Serves(x) /\ x.endpoint = "chat" /\ x.status = 500 /\ x.messages # <<>>) =>
            LET before == EnsureSessionKeys(session)
            IN  /\ Truthy(x.error)
                /\ x.response = BackendError \o x.error
                /\ session'.history = Append(before.history, HistoryMessage("user", x.message))
                /\ session'.sections = before.sections
                /\ inflight' = inflight
                /\ SESSIONS' = SESSIONS

\* C24: a request makes its generation call at most once; when the call
\* fails the request ends with an error response carrying a text, without a
\* retry, and no assistant message and no section is recorded for it.
C24_GenerationFailureIsFatal ==
    [][C24_OneCall /\ C24_StoreFailure /\ C24_SessionFailure]_vars

\* C24's case: on a conversation with one answered turn a second submission
\* failed in its generation call and left its user message alone.
C24_Witness ==
    \E c \in DOMAIN SESSIONS :
        /\ Len(SESSIONS[c].messages) = 3
        /\ Len(SESSIONS[c].sections) = 1
        /\ SESSIONS[c].messages[3].role = "user"
        /\ UnderWay(c) = 0
        /\ \E x \in BagToSet(served) :
              /\ x.endpoint = "chat_session"
              /\ x.s = c
              /\ x.status = 500
              /\ x.messages # <<>>
              /\ x.message = SESSIONS[c].messages[3].content

\* list a begins list b.
IsPrefix(a, b) == Len(a) <= Len(b) /\ SubSeq(b, 1, Len(a)) = a

\* C25, append-only: in every step of the backend, each conversation keeps
\* the messages and sections it holds, in their places; what a step adds
\* comes after them.
C25_MessagesAndSectionsKept ==
    \A c \in DOMAIN SESSIONS :
        /\ c \in DOMAIN SESSIONS'
        /\ IsPrefix(SESSIONS[c].messages, SESSIONS'[c].messages)
        /\ IsPrefix(SESSIONS[c].sections, SESSIONS'[c].sections)

\* C25, rename: a rename changes the title of the conversation named, when
\* the new title is not empty, and nothing else in the store.
C25_RenameChangesTitleOnly ==
    \A x \in BagToSet(served') :
        (Serves(x) /\ x.endpoint = "session_rename") =>
            /\ DOMAIN SESSIONS' = DOMAIN SESSIONS
            /\ \A c \in DOMAIN SESSIONS :
                  /\ c # x.payload_session_id => SESSIONS'[c] = SESSIONS[c]
                  /\ SESSIONS'[c] = [SESSIONS[c] EXCEPT !.title = SESSIONS'[c].title]
            /\ (x.status = 200 /\ Truthy(Strip(OrEmpty(x.message)))) =>
                  SESSIONS'[x.payload_session_id].title = Strip(OrEmpty(x.message))

\* C25: over any sequence of creations, fetches, listings, renames and
\* submissions, every message and section recorded in a conversation keeps
\* its content and position, and a rename changes nothing but the title.
C25_AppendOnly == [][C25_MessagesAndSectionsKept /\ C25_RenameChangesTitleOnly]_vars

\* C25's case: a conversation with an answered turn was renamed to "tata"
\* and still holds the turn.
C25_Witness ==
    \E c \in DOMAIN SESSIONS :
        /\ SESSIONS[c].title = W_tata
        /\ Len(SESSIONS[c].messages) = 2
        /\ Len(SESSIONS[c].sections) = 1
        /\ \E x \in BagToSet(served) :
              /\ x.endpoint = "session_rename"
              /\ x.payload_session_id = c
              /\ x.status = 200
              /\ x.sessions[1].messages # <<>>

\* C27, the store's memory: the memory a /chat_session handler builds is
\* the builder's text for the updated topic and the sections the
\* conversation holds then, each of them recorded by a submission on the
\* same conversation that has been answered; the handler's own section is
\* not among them and is not added by this step.
C27_StoreMemoryFromEarlierTurns ==
    \A f \in BagToSet(inflight), g \in BagToSet(inflight') :
        Prepares(f, g) =>
            LET conv  == SESSIONS[f.s]
                topic == extract_topic(f.user_msg, conv.current_topic)
            IN  /\ g.current_topic = topic
                /\ g.session_memory_text = build_session_memory_sections(conv.sections, topic, DefaultLimit, DefaultMaxChars)
                /\ g.messages = build_hybrid_messages(f.user_msg, g.retrieved, ExtraSystemMsgs(g.session_memory_text))
                /\ Len(conv.sections) = Completed(f.s, 200)
                /\ \A i \in DOMAIN conv.sections :
                      \E x \in BagToSet(served) :
                          /\ x.endpoint = "chat_session" /\ x.s = f.s /\ x.status = 200
                          /\ x.message = conv.sections[i].query
                          /\ x.response = conv.sections[i].answer
                /\ SESSIONS'[f.s].sections = conv.sections

\* C27, the order: a section is added to a conversation of the store only
\* by the step that ends a submission with 200, after its generation call
\* has returned the answer the section holds.
C27_SectionAfterGeneration ==
    \A c \in DOMAIN SESSIONS :
        SESSIONS'[c].sections # SESSIONS[c].sections =>
            \E f \in BagToSet(inflight), x \in BagToSet(served') :
                /\ f.pc = "append_section" /\ f.s = c /\ f.ai_msg # None
                /\ f.messages # <<>>
                /\ inflight' = BagRemove(inflight, f)
                /\ Serves(x) /\ x.status = 200 /\ x.s = c
                /\ x.message = f.user_msg /\ x.response = f.ai_msg /\ x.messages = f.messages
                /\ Len(SESSIONS'[c].sections) = Len(SESSIONS[c].sections) + 1
                /\ SESSIONS'[c].sections[Len(SESSIONS'[c].sections)].query = f.user_msg
                /\ SESSIONS'[c].sections[Len(SESSIONS'[c].sections)].answer = f.ai_msg

\* C27, the single conversation: the prompt of a /chat request is built
\* with the memory of the sections the session held before the request;
\* the request's own section is added when the call has returned.
C27_SessionMemoryFromEarlierTurns ==
    \A x \in BagToSet(served') :
        (Serves(x) /\ x.endpoint = "chat" /\ x.messages # <<>>) =>
            LET before == EnsureSessionKeys(session)
                topic  == extract_topic(x.message, before.current_topic)
                memory == build_session_memory_sections(before.sections, topic, DefaultLimit, DefaultMaxChars)
            IN  /\ \E docs \in SearchResults : x.messages = build_hybrid_messages(x.message, docs, ExtraSystemMsgs(memory))
                /\ IF x.status = 200
                   THEN /\ Len(session'.sections) = Len(before.sections) + 1
                        /\ SubSeq(session'.sections, 1, Len(before.sections)) = before.sections
                        /\ session'.sections[Len(session'.sections)].query = x.message
                        /\ session'.sections[Len(session'.sections)].answer = x.response
                   ELSE session'.sections = before.sections

\* C27: the session memory of a turn is built from the sections recorded by
\* earlier successful turns of the same conversation, never from the turn's
\* own: the section is appended only after the generation call has
\* returned, which comes after the topic update, the memory, the retrieval
\* and the prompt.
C27_MemoryFromEarlierTurns ==
    [][/\ C27_StoreMemoryFromEarlierTurns
       /\ C27_SectionAfterGeneration
       /\ C27_SessionMemoryFromEarlierTurns]_vars

\* C27's case: a second submission on a conversation stands before its
\* generation call with the memory of the first turn's section, the only
\* one the conversation holds.
C27_Witness ==
    \E f \in BagToSet(inflight) :
        /\ f.pc = "generate"
        /\ f.session_memory_text # <<>>
        /\ Len(SESSIONS[f.s].sections) = 1
        /\ f.session_memory_text = RenderSections(SESSIONS[f.s].sections)
        /\ SESSIONS[f.s].sections[1].query # f.user_msg
        /\ Len(SESSIONS[f.s].messages) = 3

\* A /chat_session handler passes its topic update in this step: f is its
\* frame before the update.
UpdatesTopic(f) ==
    /\ f \in BagToSet(inflight)
    /\ f.pc = "prepare"
    /\ BagRemove(inflight, f) \sqsubseteq inflight'
    /\ ~(inflight \sqsubseteq inflight')

\* C28, the store: the handler of an accepted submission stores the topic
\* tracker's result on its message and the topic stored before, a string;
\* no other step changes a stored topic, so the topic stays when the
\* generation call fails afterwards.
C28_StoreTopic ==
    /\ \A f \in BagToSet(inflight) :
          UpdatesTopic(f) =>
              /\ SESSIONS'[f.s].current_topic = extract_topic(f.user_msg, SESSIONS[f.s].current_topic)
              /\ SESSIONS'[f.s].current_topic # None
    /\ \A c \in DOMAIN SESSIONS :
          SESSIONS'[c].current_topic # SESSIONS[c].current_topic =>
              \E f \in BagToSet(inflight) : UpdatesTopic(f) /\ f.s = c
    /\ \A c \in DOMAIN SESSIONS' \ DOMAIN SESSIONS : SESSIONS'[c].current_topic = <<>>

\* C28, the single conversation: a /chat request that is accepted leaves the
\* tracker's result on its message and the topic before it, a string,
\* whether it ends with 200 or with 500.
C28_SessionTopic ==
    \A x \in BagToSet(served') :
        (Serves(x) /\ x.endpoint = "chat" /\ x.status # 400) =>
            /\ session'.current_topic = extract_topic(x.message, EnsureSessionKeys(session).current_topic)
            /\ session'.current_topic # None

\* C28: after an accepted submission the conversation's stored topic is a
\* string equal to the topic tracker's result on the message and the topic
\* stored before, whether the generation call succeeds or fails.
C28_TopicStoredOnEveryTurn == [][C28_StoreTopic /\ C28_SessionTopic]_vars

\* C28's case: the submission "Cupid Limited" on a new conversation failed
\* in its generation call and the conversation's topic is "cupid limited".
C28_Witness ==
    \E x \in BagToSet(served) :
        /\ x.endpoint = "chat_session"
        /\ x.status = 500
        /\ x.messages # <<>>
        /\ x.message = Msg_CupidLimited
        /\ SESSIONS[x.s].current_topic = Topic_cupid_limited
        /\ SESSIONS[x.s].sections = <<>>
        /\ Len(SESSIONS[x.s].messages) = 1

\* The citation list names the documents of a retrieved list, one entry
\* each, in the list's order.
Cites(sources, retrieved) ==
    /\ Len(sources) = Len(retrieved)
    /\ \A i \in DOMAIN retrieved :
          /\ sources[i].doc_id = retrieved[i].doc_id
          /\ sources[i].source = retrieved[i].meta.source
          /\ sources[i].score = retrieved[i].score

\* C29: the citation list of a successful submission has one entry for each
\* retrieved document, in retrieval order, whatever its score: the
\* documents below the relevance threshold, which are not in the context of
\* the prompt, are cited too.
C29_SourcesCiteEveryRetrievedDoc ==
    [][\A x \in BagToSet(served') :
          (Serves(x) /\ x.status = 200 /\ x.endpoint \in {"chat", "chat_session"}) =>
              IF x.endpoint = "chat_session"
              THEN \E f \in BagToSet(inflight) :
                      /\ f.pc = "append_section"
                      /\ inflight' = BagRemove(inflight, f)
                      /\ f.messages = x.messages
                      /\ ContextOf(x.messages) = ContextText(f.retrieved)
                      /\ Cites(x.sources, f.retrieved)
              ELSE \E docs \in SearchResults :
                      /\ ContextOf(x.messages) = ContextText(docs)
                      /\ Cites(x.sources, docs)]_vars

\* C29's case: of two retrieved documents the second, scored below the
\* threshold, is cited and its text is not in the context of the prompt.
C29_Witness ==
    \E x \in BagToSet(served) :
        /\ x.endpoint = "chat_session"
        /\ x.status = 200
        /\ Len(x.sources) = 2
        /\ x.sources[2].score < RelevanceThreshold
        /\ x.sources[2].doc_id = <<"d", "2">>
        /\ Contains(ContextOf(x.messages), W_Cupid)
        /\ ~Contains(ContextOf(x.messages), W_tata)

-----------------------------------------------------------------------------
(* Claims about the chunked upload (checked under SpecUpload)              *)

\* What stands for bytes that are no stretch of the data.
Gap == [from |-> 0 - 1, to |-> 0 - 1]

\* The bytes of the committed blob: the staged blocks named by the block
\* list, joined in its order; Gap when two of them do not join or an id
\* names no staged block.
RECURSIVE CommittedBytes(_, _)
CommittedBytes(ids, staged) ==
    IF ids = <<>> THEN Bytes(0)
    ELSE LET rest  == CommittedBytes(SubSeq(ids, 1, Len(ids) - 1), staged)
             named == {k \in DOMAIN staged : staged[k].id = ids[Len(ids)]}
         IN  IF rest = Gap \/ Cardinality(named) # 1 THEN Gap
             ELSE LET b == staged[CHOOSE k \in named : TRUE].data
                  IN  IF b.from # rest.to THEN Gap
                      ELSE [from |-> rest.from, to |-> b.to]

\* C30, staging: the blocks staged so far are consecutive stretches of the
\* data of 1 to 4 MiB bytes, from its first byte on, each under the id
\* "block-" and its number in five digits, the ids distinct and increasing;
\* nothing is committed while blocks are being staged.
C30_BlocksInOrder ==
    /\ Len(u_staged) = u_index
    /\ \A k \in DOMAIN u_staged :
          /\ u_staged[k].data.from = (k - 1) * BLOCK_SIZE
          /\ u_staged[k].data.to = Min(k * BLOCK_SIZE, ByteLen(u_data))
          /\ ByteLen(u_staged[k].data) \in 1..BLOCK_SIZE
          /\ Len(u_staged[k].id) = 11
          /\ SubSeq(u_staged[k].id, 1, 6) = <<"b", "l", "o", "c", "k", "-">>
          /\ \A j \in 7..11 : u_staged[k].id[j] \in Range(Digits)
          /\ u_blocks[k].id = u_staged[k].id
    /\ \A j, k \in DOMAIN u_staged :
          j < k => StrLess(SubSeq(u_staged[j].id, 7, 11), SubSeq(u_staged[k].id, 7, 11))
    /\ u_pc = "stage" => u_committed = <<>>

\* C30, the commit: the block list is committed when every block of the
\* data has been staged, with the ids in staging order, and the committed
\* blocks joined are the data; a failed upload has committed nothing.
C30_CommitAfterAllStaged ==
    /\ u_pc = "committed" =>
          /\ u_index * BLOCK_SIZE >= ByteLen(u_data)
          /\ u_committed = [k \in DOMAIN u_staged |-> u_staged[k].id]
          /\ CommittedBytes(u_committed, u_staged) = u_data
    /\ u_pc = "failed" => u_committed = <<>>

\* C30: the upload stages the data as consecutive blocks of at most 4 MiB
\* in byte order, each with a distinct zero-padded increasing id, and
\* commits the block list only after every block has been staged, the ids
\* in staging order, so that the committed blocks joined are the data; if
\* staging a block fails, nothing is committed.
C30_ChunkedUpload == C30_BlocksInOrder /\ C30_CommitAfterAllStaged

\* C30's case: data of three whole blocks and two bytes were committed as
\* four blocks, the last of two bytes.
C30_Witness ==
    /\ u_pc = "committed"
    /\ ByteLen(u_data) = 3 * BLOCK_SIZE + 2
    /\ Len(u_committed) = 4
    /\ u_committed[4] = <<"b", "l", "o", "c", "k", "-", "0", "0", "0", "0", "3">>
    /\ ByteLen(u_staged[4].data) = 2

-----------------------------------------------------------------------------
(* Claims about the topic tracker (checked under SpecTopic)                *)

\* The lowercase alphanumeric tokens of a message.
TokensOf(msg) == FindAll(Lower(msg))

\* C5: for every message whose first lowercase alphanumeric token is one of
\* the 16 question/reference words, and every previous topic, the topic
\* tracker returns the previous topic unchanged, whatever the token count.
C5_QuestionKeepsTopic ==
    (/\ t_pc = "output"
     /\ TokensOf(t_user_msg) # <<>>
     /\ TokensOf(t_user_msg)[1] \in QuestionWords)
    => t_result = t_last_topic

\* ("give the ceo name", "tata motors") -> "tata motors": four tokens, kept
\* by the question rule.
C5_Witness ==
    /\ t_pc = "output"
    /\ t_user_msg = Msg_GiveTheCeoName
    /\ Len(TokensOf(t_user_msg)) = 4
    /\ t_last_topic = Topic_tata_motors
    /\ t_result = Topic_tata_motors

\* A message of 1 to 4 tokens that does not start with a question word.
ShortNonQuestion(msg) ==
    /\ Len(TokensOf(msg)) \in 1..4
    /\ TokensOf(msg)[1] \notin QuestionWords

\* C6 as stated: for every message of 1 to 4 tokens whose first token is not
\* a question word, the tracker returns the entire lowercased message text.
C6_ReturnsEntireLowercasedText ==
    (t_pc = "output" /\ ShortNonQuestion(t_user_msg))
    => t_result = Lower(t_user_msg)

\* C6 amended: for every such message the tracker returns the message text
\* with its leading and trailing whitespace removed, lowercased, whatever
\* the previous topic was.
C6_ReturnsTrimmedLowercasedText ==
    (t_pc = "output" /\ ShortNonQuestion(t_user_msg))
    => t_result = Lower(Strip(t_user_msg))

\* (" Cupid Limited  ", "") -> "cupid limited".
C6_Witness ==
    /\ t_pc = "output"
    /\ t_user_msg = <<" ">> \o Msg_CupidLimited \o <<" ", " ">>
    /\ t_last_topic = <<>>
    /\ t_result = Topic_cupid_limited

\* C7: for every previous topic the tracker returns it unchanged when the
\* message is empty, whitespace-only, without any alphanumeric token, or of
\* more than 4 tokens; so the result differs from the previous topic only
\* on a message of 1 to 4 tokens that does not start with a question word.
C7_OtherwiseKeepsTopic ==
    t_pc = "output" =>
        /\ (\/ t_user_msg = <<>>
            \/ Strip(t_user_msg) = <<>>
            \/ TokensOf(t_user_msg) = <<>>
            \/ Len(TokensOf(t_user_msg)) > 4) => t_result = t_last_topic
        /\ t_result # t_last_topic => ShortNonQuestion(t_user_msg)

\* A message of more than four tokens, not a question, keeps "tata motors".
C7_Witness ==
    /\ t_pc = "output"
    /\ Len(TokensOf(t_user_msg)) > 4
    /\ TokensOf(t_user_msg)[1] = W_cupid
    /\ t_last_topic = Topic_tata_motors
    /\ t_result = Topic_tata_motors

====
